---- MODULE Spec2Model ----
(***************************************************************************)
(* Order execution engine: OrderProcessor (submitOrder, processOrder,      *)
(* updateOrderStatus, updateMetrics), the BullMQ queue and worker that     *)
(* drive it, the DELETE /api/orders/:orderId cancellation handler, and the *)
(* PostgreSQL / Redis state they write.                                    *)
(*                                                                         *)
(* Every await in the source is a scheduling point: one action models the  *)
(* code from one await to the next.                                        *)
(***************************************************************************)
EXTENDS Integers, Sequences, FiniteSets, TLC

\* ------------------------------------------------------------------ bounds
Orders == {"o1", "o2"}      \* order ids in play
SingleOrder == {"o1"}       \* the order id submitted where one order shows everything
MaxWorkers == 2             \* worker slots modelled (concurrency: 10 in the code)
MaxSubmitCalls == 2         \* submitOrder calls over a run
MaxCancelCalls == 1         \* DELETE /:orderId requests over a run
MaxFaults == 2              \* operations (store, queue, venue) that fail over a run
MaxConnections == 1         \* WebSocket connections opened per order id over a run
MaxSelectCalls == 2         \* selectBestDex calls on one pair of quotes
MaxChannels == 3            \* sockets handed to a WebSocketManager over a run
MaxWsOps == 4               \* calls and socket events on a WebSocketManager over a run
MaxClock == 1               \* ticks of the PostgreSQL clock over a run
MaxPosts == 2               \* POST /execute requests over a run
MaxReads == 1               \* getOrder / getOrderEvents / getMetrics calls over a run
MaxAmountIn == 12           \* largest amount handed to a quote method on its own
RandomSteps == 4            \* Math.random() takes the values k / RandomSteps, k < RandomSteps

\* ------------------------------------------------------- program constants
Attempts == 3               \* defaultJobOptions.attempts

Workers == 1..MaxWorkers
Channels == 1..MaxChannels
SubmitCalls == 1..MaxSubmitCalls
CancelCalls == 1..MaxCancelCalls

DexNames == {"raydium", "meteora"}

\* ExecutionData (and the cancellation payload) as stored in JSON columns.
NoData == [kind |-> "null", dex |-> "", error |-> ""]
Outcome(dex) == [kind |-> "outcome", dex |-> dex, error |-> ""]
ErrorData(msg) == [kind |-> "error", dex |-> "", error |-> msg]
CancelData == [kind |-> "reason", dex |-> "", error |-> "User cancelled"]

\* History of one Process invocation (what this invocation itself did).
NoHist == [trans |-> <<>>, decs |-> 0, swaps |-> 0, incTotal |-> 0,
           incOk |-> 0, incFailed |-> 0, quotes |-> FALSE, quoteErr |-> FALSE,
           sendErrs |-> 0, quoteCalls |-> 0]

\* A socket not yet handed to the WebSocketManager.
NoSocket == [owner |-> "", sent |-> <<>>, tried |-> 0, closed |-> 0,
             sendThrows |-> FALSE, closeThrows |-> FALSE, ended |-> FALSE]

\* No call made yet on the WebSocketManager.
NoOp == [name |-> "", id |-> "", ch |-> 0, attempted |-> {}, threw |-> FALSE]

\* No POST /execute request yet.
NoRequest == [n |-> 0, amountIn |-> 0, slippage |-> 0, reply |-> ""]

\* No read call yet.
NoRead == [op |-> "", reads |-> 0, id |-> "", found |-> FALSE, status |-> "",
           rows |-> <<>>, metrics |-> <<>>]

\* No SwapResult: executeSwap is not being called on its own.
NoSwap == [dex |-> "", executedPrice |-> 0, gasUsed |-> 0, slippageImpact |-> 0]

\* No quote: selectBestDex is not being called on its own.
NoQuote == [dex |-> "", price |-> 0, fee |-> 0, liquidity |-> 0,
            estimatedGas |-> 0, amountOut |-> 0]

VARIABLES
    dbStatus,    \* orders.status per order id; "none" = no row
    dbExec,      \* orders.execution_data per order id
    events,      \* order_events rows per order id, in insertion order
    decisions,   \* routing_decisions rows per order id, in insertion order
    cache,       \* Redis hash order:<id>
    stats,       \* Redis counters stats:*
    jobs,        \* BullMQ jobs of queue 'order-execution', in add order
    emitted,     \* statuses handed to wsManager.emitToOrder, per order id
    wJob,        \* worker slot -> index of the job it processes (0 = idle)
    wPc,         \* worker slot -> position in processOrder
    wSub,        \* worker slot -> step inside updateOrderStatus / updateMetrics
    wErr,        \* worker slot -> message of the caught error
    wDex,        \* worker slot -> routingDecision.dex
    wHist,       \* worker slot -> history of the running invocation
    sOrder,      \* submitOrder call -> order id
    sPc,         \* submitOrder call -> position
    sSub,        \* submitOrder call -> step inside updateOrderStatus
    sErr,        \* submitOrder call -> error it rejected with
    sHist,       \* submitOrder call -> what the call itself wrote
    cOrder,      \* cancellation request -> order id
    cPc,         \* cancellation request -> position / reply
    incrs,       \* per order id: counter increments made on its behalf
    quoted,      \* per order id: an invocation that obtained both quotes finished
    faults,      \* failed store / queue operations so far
    written,     \* per order id: statuses ever stored in orders.status
    connections, \* WebSocketManager.connections: order id -> has an entry
    delivered,   \* per order id: statuses sent on the subscriber's socket
    selRaydium,  \* selectBestDex called on its own: the raydium quote
    selMeteora,  \* selectBestDex called on its own: the meteora quote
    selDecisions, \* selectBestDex called on its own: the decisions returned
    now,         \* PostgreSQL clock (CURRENT_TIMESTAMP)
    wsMap,       \* WebSocketManager on its own: the connections Map, in insertion order
    chan,        \* WebSocketManager on its own: the sockets handed to it
    wsOp,        \* WebSocketManager on its own: the last call made on it
    wsOps,       \* WebSocketManager on its own: calls made so far
    http,        \* last POST /execute request and its reply
    readResult,  \* last getOrder / getOrderEvents / getMetrics call and its result
    qAmount,     \* a quote method called on its own: the amount
    qQuote,      \* a quote method called on its own: the quote returned
    xOrder,      \* executeSwap called on its own: the order's slippage
    xResult      \* executeSwap called on its own: the SwapResult returned

vars == <<dbStatus, dbExec, events, decisions, cache, stats, jobs, emitted,
          wJob, wPc, wSub, wErr, wDex, wHist,
          sOrder, sPc, sSub, sErr, sHist, cOrder, cPc, incrs, quoted, faults,
          written, connections, delivered, selRaydium, selMeteora, selDecisions,
          now, wsMap, chan, wsOp, wsOps, http, readResult, qAmount, qQuote,
          xOrder, xResult>>

dbVars == <<dbStatus, dbExec, events, decisions>>
redisVars == <<cache, stats>>
workerVars == <<wJob, wPc, wSub, wErr, wDex, wHist>>
submitVars == <<sOrder, sPc, sSub, sErr, sHist>>
cancelVars == <<cOrder, cPc>>
auxVars == <<incrs, quoted>>
wsVars == <<connections, delivered>>
selVars == <<selRaydium, selMeteora, selDecisions>>
mgrVars == <<wsMap, chan, wsOp, wsOps>>
apiVars == <<http, readResult>>
quoteVars == <<qAmount, qQuote>>
swapVars == <<xOrder, xResult>>

\* The server after construction: empty stores and queue, idle workers, no
\* subscriber.
EngineInit ==
    /\ dbStatus = [o \in Orders |-> "none"]
    /\ dbExec = [o \in Orders |-> NoData]
    /\ events = [o \in Orders |-> <<>>]
    /\ decisions = [o \in Orders |-> <<>>]
    /\ cache = [o \in Orders |-> [status |-> "none", exec |-> NoData]]
    /\ stats = [total |-> 0, successful |-> 0, failed |-> 0,
                raydium |-> 0, meteora |-> 0]
    /\ jobs = <<>>
    /\ emitted = [o \in Orders |-> <<>>]
    /\ wJob = [w \in Workers |-> 0]
    /\ wPc = [w \in Workers |-> "idle"]
    /\ wSub = [w \in Workers |-> 0]
    /\ wErr = [w \in Workers |-> ""]
    /\ wDex = [w \in Workers |-> ""]
    /\ wHist = [w \in Workers |-> NoHist]
    /\ sOrder = [s \in SubmitCalls |-> ""]
    /\ sPc = [s \in SubmitCalls |-> "idle"]
    /\ sSub = [s \in SubmitCalls |-> 0]
    /\ sErr = [s \in SubmitCalls |-> ""]
    /\ sHist = [s \in SubmitCalls |-> [persisted |-> "", enqueued |-> FALSE,
                                       events |-> 0, emits |-> 0]]
    /\ cOrder = [c \in CancelCalls |-> ""]
    /\ cPc = [c \in CancelCalls |-> "idle"]
    /\ incrs = [o \in Orders |-> [total |-> 0, successful |-> 0, failed |-> 0]]
    /\ quoted = [o \in Orders |-> FALSE]
    /\ faults = 0
    /\ written = [o \in Orders |-> {}]
    /\ connections = [o \in Orders |-> FALSE]
    /\ delivered = [o \in Orders |-> <<>>]
    /\ now = 0
    /\ wsMap = <<>>
    /\ chan = [c \in Channels |-> NoSocket]
    /\ wsOp = NoOp
    /\ wsOps = 0
    /\ http = NoRequest
    /\ readResult = NoRead

\* selectBestDex is not being called on its own.
SelectIdle ==
    /\ selRaydium = NoQuote
    /\ selMeteora = NoQuote
    /\ selDecisions = <<>>

\* No quote method is being called on its own.
QuoteIdle ==
    /\ qAmount = 0
    /\ qQuote = NoQuote

\* executeSwap is not being called on its own.
SwapIdle ==
    /\ xOrder = [slippage |-> 0]
    /\ xResult = NoSwap

Init ==
    /\ EngineInit
    /\ SelectIdle
    /\ QuoteIdle
    /\ SwapIdle

\* ------------------------------------------------------------ MockDexRouter
\* Numbers are integers in fixed point: prices in 1/100, fees in 1/10000,
\* amountOut and estimatedGas in 1/1000000.
BasePrice == 100
RaydiumFee == 25
MeteoraFee == 20
RaydiumGas == 100
MeteoraGas == 80
OrderAmountIn == 1          \* order.amountIn of the submitted orders

RaydiumVariance == {98, 100}             \* 0.98 + Math.random() * 0.04, in 1/100
MeteoraVariance == {97, 100}             \* 0.97 + Math.random() * 0.06, in 1/100
RaydiumLiquidity == {1000000, 1200000}   \* 1000000 + Math.random() * 500000
MeteoraLiquidity == {800000, 1200000}    \* 800000 + Math.random() * 400000

\* Faulty variant, not the code: the fee is added to the output.
quoteAddingFee(amount, variance, liquidity) ==
    LET price == BasePrice * variance
    IN  [dex |-> "raydium", price |-> price, fee |-> RaydiumFee,
         liquidity |-> liquidity, estimatedGas |-> RaydiumGas,
         amountOut |-> amount * price * (10000 + RaydiumFee)]

getRaydiumQuote(amount, variance, liquidity) ==
    LET price == BasePrice * variance
    IN  [dex |-> "raydium", price |-> price, fee |-> RaydiumFee,
         liquidity |-> liquidity, estimatedGas |-> RaydiumGas,
         amountOut |-> amount * price * (10000 - RaydiumFee)]

getMeteorQuote(amount, variance, liquidity) ==
    LET price == BasePrice * variance
    IN  [dex |-> "meteora", price |-> price, fee |-> MeteoraFee,
         liquidity |-> liquidity, estimatedGas |-> MeteoraGas,
         amountOut |-> amount * price * (10000 - MeteoraFee)]

\* Faulty variants of selectBestDex, not the code. VariantDecision builds their
\* result from a venue and a reason.
VariantDecision(dex, reason, raydiumQuote, meteoraQuote) ==
    LET selectedQuote == IF dex = "raydium" THEN raydiumQuote ELSE meteoraQuote
    IN  [dex |-> dex, price |-> selectedQuote.price, fee |-> selectedQuote.fee,
         estimatedGas |-> selectedQuote.estimatedGas, reason |-> reason,
         alternatives |-> <<raydiumQuote, meteoraQuote>>]

\* ... the venue with the higher total cost wins.
selectHigherCost(raydiumQuote, meteoraQuote) ==
    LET raydiumTotalCost == raydiumQuote.amountOut + raydiumQuote.estimatedGas
        meteoraTotalCost == meteoraQuote.amountOut + meteoraQuote.estimatedGas
    IN  IF raydiumTotalCost > meteoraTotalCost
        THEN VariantDecision("raydium", "better total cost", raydiumQuote, meteoraQuote)
        ELSE IF meteoraTotalCost > raydiumTotalCost
        THEN VariantDecision("meteora", "better total cost", raydiumQuote, meteoraQuote)
        ELSE IF raydiumQuote.liquidity > meteoraQuote.liquidity
        THEN VariantDecision("raydium", "higher liquidity", raydiumQuote, meteoraQuote)
        ELSE VariantDecision("meteora", "higher liquidity", raydiumQuote, meteoraQuote)

\* ... equal total costs always go to meteora, whatever the liquidities.
selectIgnoringLiquidity(raydiumQuote, meteoraQuote) ==
    LET raydiumTotalCost == raydiumQuote.amountOut + raydiumQuote.estimatedGas
        meteoraTotalCost == meteoraQuote.amountOut + meteoraQuote.estimatedGas
    IN  IF raydiumTotalCost > meteoraTotalCost
        THEN VariantDecision("meteora", "better total cost", raydiumQuote, meteoraQuote)
        ELSE IF meteoraTotalCost > raydiumTotalCost
        THEN VariantDecision("raydium", "better total cost", raydiumQuote, meteoraQuote)
        ELSE VariantDecision("meteora", "higher liquidity", raydiumQuote, meteoraQuote)

\* ... on equal total cost and equal liquidity the venue depends on how often
\* the router was called before.
selectAlternating(raydiumQuote, meteoraQuote) ==
    LET raydiumTotalCost == raydiumQuote.amountOut + raydiumQuote.estimatedGas
        meteoraTotalCost == meteoraQuote.amountOut + meteoraQuote.estimatedGas
    IN  IF raydiumTotalCost > meteoraTotalCost
        THEN VariantDecision("meteora", "better total cost", raydiumQuote, meteoraQuote)
        ELSE IF meteoraTotalCost > raydiumTotalCost
        THEN VariantDecision("raydium", "better total cost", raydiumQuote, meteoraQuote)
        ELSE IF raydiumQuote.liquidity > meteoraQuote.liquidity
        THEN VariantDecision("raydium", "higher liquidity", raydiumQuote, meteoraQuote)
        ELSE IF meteoraQuote.liquidity > raydiumQuote.liquidity \/ Len(selDecisions) % 2 = 0
        THEN VariantDecision("meteora", "higher liquidity", raydiumQuote, meteoraQuote)
        ELSE VariantDecision("raydium", "higher liquidity", raydiumQuote, meteoraQuote)

\* ... the decision keeps only the selected quote, with the raydium quote's
\* fee.
selectWithoutAlternatives(raydiumQuote, meteoraQuote) ==
    LET raydiumTotalCost == raydiumQuote.amountOut + raydiumQuote.estimatedGas
        meteoraTotalCost == meteoraQuote.amountOut + meteoraQuote.estimatedGas
        dex == IF raydiumTotalCost > meteoraTotalCost THEN "meteora"
               ELSE IF meteoraTotalCost > raydiumTotalCost THEN "raydium"
               ELSE IF raydiumQuote.liquidity > meteoraQuote.liquidity THEN "raydium"
               ELSE "meteora"
        reason == IF raydiumTotalCost = meteoraTotalCost THEN "higher liquidity"
                  ELSE "better total cost"
        selectedQuote == IF dex = "raydium" THEN raydiumQuote ELSE meteoraQuote
    IN  [dex |-> dex, price |-> selectedQuote.price, fee |-> raydiumQuote.fee,
         estimatedGas |-> selectedQuote.estimatedGas, reason |-> reason,
         alternatives |-> <<selectedQuote>>]

selectBestDex(raydiumQuote, meteoraQuote) ==
    LET raydiumTotalCost == raydiumQuote.amountOut + raydiumQuote.estimatedGas
        meteoraTotalCost == meteoraQuote.amountOut + meteoraQuote.estimatedGas
        choice ==
            IF raydiumTotalCost > meteoraTotalCost
            THEN [dex |-> "meteora", reason |-> "better total cost"]
            ELSE IF meteoraTotalCost > raydiumTotalCost
            THEN [dex |-> "raydium", reason |-> "better total cost"]
            ELSE IF raydiumQuote.liquidity > meteoraQuote.liquidity
            THEN [dex |-> "raydium", reason |-> "higher liquidity"]
            ELSE [dex |-> "meteora", reason |-> "higher liquidity"]
        selectedQuote == IF choice.dex = "raydium" THEN raydiumQuote ELSE meteoraQuote
    IN  [dex |-> choice.dex, price |-> selectedQuote.price, fee |-> selectedQuote.fee,
         estimatedGas |-> selectedQuote.estimatedGas, reason |-> choice.reason,
         alternatives |-> <<raydiumQuote, meteoraQuote>>]

\* Quotes handed to selectBestDex when it is called on its own (as the unit
\* tests do): any price, fee, liquidity, gas and amountOut from these sets, in
\* the fixed point of the quotes above.
QuotePrices == {9900, 10000}
QuoteFees == {20, 25}
QuoteLiquidities == {800000, 1000000, 1200000}
QuoteGas == {80, 100}
QuoteAmountsOut == {98802000, 99750000, 99750020}

QuotesOf(dex) ==
    [dex : {dex}, price : QuotePrices, fee : QuoteFees,
     liquidity : QuoteLiquidities, estimatedGas : QuoteGas,
     amountOut : QuoteAmountsOut]

\* dexRouter.selectBestDex(raydiumQuote, meteoraQuote, amount)
SelectBestDex ==
    /\ selRaydium # NoQuote
    /\ Len(selDecisions) < MaxSelectCalls
    /\ selDecisions' = Append(selDecisions, selectBestDex(selRaydium, selMeteora))
    /\ UNCHANGED <<now, mgrVars, apiVars, quoteVars, swapVars, written, wsVars, selRaydium, selMeteora, dbVars, redisVars, jobs,
                   emitted, workerVars, submitVars, cancelVars, auxVars, faults>>

\* executeSwap. order.slippage is in 1/10000; Math.random() is random /
\* RandomSteps; slippageImpact and executedPrice are in 1/SwapScale.
SwapScale == 10000 * RandomSteps

\* Faulty variant, not the code: the draw is not scaled by order.slippage.
swapUnscaled(dex, order, random) ==
    LET slippageImpact == SwapScale - random * 10000
        executedPrice == BasePrice * slippageImpact
    IN  [dex |-> dex, executedPrice |-> executedPrice,
         gasUsed |-> IF dex = "raydium" THEN RaydiumGas ELSE MeteoraGas,
         slippageImpact |-> slippageImpact]

executeSwap(dex, order, random) ==
    LET slippageImpact == SwapScale - random * order.slippage
        executedPrice == BasePrice * slippageImpact
    IN  [dex |-> dex, executedPrice |-> executedPrice,
         gasUsed |-> IF dex = "raydium" THEN RaydiumGas ELSE MeteoraGas,
         slippageImpact |-> slippageImpact]

\* ------------------------------------------------- store and queue operations
\* redis.hset(order:<id>, {status, updatedAt, ...(data && {executionData})}):
\* the executionData field is written only when data is given.
RedisHset(o, status, data) ==
    cache' = [cache EXCEPT ![o] =
                [status |-> status,
                 exec |-> IF data = NoData THEN @.exec ELSE data]]

\* Faulty variant, not the code: the UPDATE has no WHERE clause.
PgUpdateEveryOrder(o, status, data) ==
    /\ dbStatus' = [p \in Orders |-> IF dbStatus[p] = "none" THEN "none" ELSE status]
    /\ dbExec' = [p \in Orders |-> IF dbStatus[p] = "none" THEN dbExec[p] ELSE data]
    /\ written' = [p \in Orders |->
                     IF dbStatus[p] = "none" THEN written[p] ELSE written[p] \cup {status}]

\* UPDATE orders SET status, updated_at, execution_data WHERE id: no row, no effect.
PgUpdateOrder(o, status, data) ==
    IF dbStatus[o] = "none"
    THEN UNCHANGED <<dbStatus, dbExec, written>>
    ELSE /\ dbStatus' = [dbStatus EXCEPT ![o] = status]
         /\ dbExec' = [dbExec EXCEPT ![o] = data]
         /\ written' = [written EXCEPT ![o] = @ \cup {status}]

\* INSERT INTO order_events: order_id REFERENCES orders(id).
EventInsertAccepted(o) == dbStatus[o] # "none"

\* Faulty variant, not the code: the event row is not written.
PgInsertEventLost(o, status, data) == UNCHANGED events

PgInsertEvent(o, status, data) ==
    events' = [events EXCEPT ![o] =
                 Append(@, [status |-> status, data |-> data, ts |-> now])]

\* sendMessage: no connection for the order id, nothing is sent; otherwise the
\* message goes out on the connection's socket.
SendMessage(o, status) ==
    /\ delivered' = IF connections[o]
                    THEN [delivered EXCEPT ![o] = Append(@, status)]
                    ELSE delivered
    /\ UNCHANGED connections

\* sendMessage when socket.send throws: catch, logError, connections.delete.
SendMessageThrows(o) ==
    /\ connections' = [connections EXCEPT ![o] = FALSE]
    /\ UNCHANGED delivered

\* wsManager.emitToOrder(orderId, status, data)
EmitToOrder(o, status) ==
    /\ emitted' = [emitted EXCEPT ![o] = Append(@, status)]
    /\ SendMessage(o, status)

\* INSERT INTO orders: id is the PRIMARY KEY.
OrderInsertAccepted(o) == dbStatus[o] = "none"

JobsOf(o) == {i \in DOMAIN jobs : jobs[i].jobId = o}

\* ------------------------------------------------------------- submitOrder
\* Calls are interchangeable: the lowest unused one is the next to start.
NextSubmit(s) == sPc[s] = "idle" /\ \A r \in SubmitCalls : r < s => sPc[r] # "idle"
NextCancel(c) == cPc[c] = "idle" /\ \A r \in CancelCalls : r < c => cPc[r] # "idle"

\* The order object handed to submitOrder carries status 'pending'.
SubmittedStatus == "pending"

\* persistOrder: the row is inserted.
SubmitPersist(s, o) ==
    /\ NextSubmit(s)
    /\ OrderInsertAccepted(o)
    /\ dbStatus' = [dbStatus EXCEPT ![o] = SubmittedStatus]
    /\ dbExec' = [dbExec EXCEPT ![o] = NoData]
    /\ sOrder' = [sOrder EXCEPT ![s] = o]
    /\ sPc' = [sPc EXCEPT ![s] = "add"]
    /\ sHist' = [sHist EXCEPT ![s].persisted = SubmittedStatus]
    /\ written' = [written EXCEPT ![o] = @ \cup {SubmittedStatus}]
    /\ UNCHANGED <<now, mgrVars, apiVars, quoteVars, swapVars, wsVars, selVars, events, decisions, redisVars, jobs, emitted, workerVars,
                   sSub, sErr, cancelVars, auxVars, faults>>

\* Faulty variant, not the code: the catch block logs the error and does not rethrow it.
SubmitSwallow(s, err) ==
    /\ sPc' = [sPc EXCEPT ![s] = "resolved"]
    /\ sErr' = [sErr EXCEPT ![s] = err]
    /\ sSub' = [sSub EXCEPT ![s] = 0]

\* catch (error) { logError; throw error }
SubmitCatch(s, err) ==
    /\ sPc' = [sPc EXCEPT ![s] = "rejected"]
    /\ sErr' = [sErr EXCEPT ![s] = err]
    /\ sSub' = [sSub EXCEPT ![s] = 0]

\* persistOrder on an id that already has a row: unique violation, caught and rethrown.
SubmitPersistDuplicate(s, o) ==
    /\ NextSubmit(s)
    /\ ~OrderInsertAccepted(o)
    /\ sOrder' = [sOrder EXCEPT ![s] = o]
    /\ SubmitCatch(s, "duplicate key")
    /\ UNCHANGED <<now, mgrVars, apiVars, quoteVars, swapVars, written, wsVars, selVars, dbVars, redisVars, jobs, emitted, workerVars, sHist,
                   cancelVars, auxVars, faults>>

\* queue.add('execute-order', order, {jobId: order.id}): BullMQ ignores an add
\* whose jobId already exists.
SubmitAdd(s) ==
    /\ sPc[s] = "add"
    /\ jobs' = IF JobsOf(sOrder[s]) = {}
               THEN Append(jobs, [jobId |-> sOrder[s], state |-> "waiting",
                                  attemptsMade |-> 0])
               ELSE jobs
    /\ sPc' = [sPc EXCEPT ![s] = "pending"]
    /\ sSub' = [sSub EXCEPT ![s] = 1]
    /\ sHist' = [sHist EXCEPT ![s].enqueued = TRUE]
    /\ UNCHANGED <<now, mgrVars, apiVars, quoteVars, swapVars, written, wsVars, selVars, dbVars, redisVars, emitted, workerVars, sOrder, sErr,
                   cancelVars, auxVars, faults>>

\* updateOrderStatus(order.id, 'pending'), one await at a time.
SubmitHset(s) ==
    /\ sPc[s] = "pending" /\ sSub[s] = 1
    /\ RedisHset(sOrder[s], "pending", NoData)
    /\ sSub' = [sSub EXCEPT ![s] = 2]
    /\ UNCHANGED <<now, mgrVars, apiVars, quoteVars, swapVars, written, wsVars, selVars, dbVars, stats, jobs, emitted, workerVars, sOrder, sPc, sErr,
                   sHist, cancelVars, auxVars, faults>>

SubmitUpdate(s) ==
    /\ sPc[s] = "pending" /\ sSub[s] = 2
    /\ PgUpdateOrder(sOrder[s], "pending", NoData)
    /\ sSub' = [sSub EXCEPT ![s] = 3]
    /\ UNCHANGED <<now, mgrVars, apiVars, quoteVars, swapVars, wsVars, selVars, events, decisions, redisVars, jobs, emitted, workerVars,
                   sOrder, sPc, sErr, sHist, cancelVars, auxVars, faults>>

SubmitInsert(s) ==
    /\ sPc[s] = "pending" /\ sSub[s] = 3
    /\ IF EventInsertAccepted(sOrder[s])
       THEN /\ PgInsertEvent(sOrder[s], "pending", NoData)
            /\ sSub' = [sSub EXCEPT ![s] = 4]
            /\ sHist' = [sHist EXCEPT ![s].events = @ + 1]
            /\ UNCHANGED <<sPc, sErr>>
       ELSE /\ SubmitCatch(s, "foreign key")
            /\ UNCHANGED <<events, sHist>>
    /\ UNCHANGED <<now, mgrVars, apiVars, quoteVars, swapVars, written, wsVars, selVars, dbStatus, dbExec, decisions, redisVars, jobs, emitted,
                   workerVars, sOrder, cancelVars, auxVars, faults>>

\* emitToOrder, then submitOrder resolves.
SubmitEmit(s) ==
    /\ sPc[s] = "pending" /\ sSub[s] = 4
    /\ EmitToOrder(sOrder[s], "pending")
    /\ sPc' = [sPc EXCEPT ![s] = "resolved"]
    /\ sSub' = [sSub EXCEPT ![s] = 0]
    /\ sHist' = [sHist EXCEPT ![s].emits = @ + 1]
    /\ UNCHANGED <<now, mgrVars, apiVars, quoteVars, swapVars, written, selVars, dbVars, redisVars, jobs, workerVars, sOrder, sErr,
                   cancelVars, auxVars, faults>>

\* A failing pgPool.query / queue.add / redis.hset inside submitOrder: the
\* operation has no effect and the error reaches the catch.
SubmitFault(s, o) ==
    /\ faults < MaxFaults
    /\ \/ NextSubmit(s) /\ OrderInsertAccepted(o)
          /\ sOrder' = [sOrder EXCEPT ![s] = o]
          /\ SubmitCatch(s, "persist failed")
       \/ sPc[s] = "add" /\ o = sOrder[s]
          /\ SubmitCatch(s, "enqueue failed")
          /\ UNCHANGED sOrder
       \/ sPc[s] = "pending" /\ sSub[s] \in 1..3 /\ o = sOrder[s]
          /\ SubmitCatch(s, "status update failed")
          /\ UNCHANGED sOrder
    /\ faults' = faults + 1
    /\ UNCHANGED <<now, mgrVars, apiVars, quoteVars, swapVars, written, wsVars, selVars, dbVars, redisVars, jobs, emitted, workerVars, sHist,
                   cancelVars, auxVars>>

\* ------------------------------------------------------------ POST /execute
\* Request bodies: amountIn in 1/10000000, slippage in 1/10000.
RequestAmounts == {-10, 0, 5, 10, 10000000}
RequestSlippages == {0, 9, 10, 5000, 5001}

SchemaMinAmount == 10       \* amountIn: {minimum: 0.000001}
MinSlippage == 10           \* 0.001
MaxSlippage == 5000         \* 0.5

\* The route's body schema, checked by Fastify before the handler runs.
SchemaRejects(amountIn, slippage) ==
    \/ amountIn < SchemaMinAmount
    \/ slippage < MinSlippage
    \/ slippage > MaxSlippage

\* The handler's own checks: 'Invalid amount', 'Invalid slippage'.
HandlerRejects(amountIn, slippage) ==
    \/ amountIn <= 0
    \/ slippage < MinSlippage
    \/ slippage > MaxSlippage

\* Faulty variant, not the code: nothing is validated.
RejectsNothing(amountIn, slippage) == FALSE

RequestRejected(amountIn, slippage) ==
    SchemaRejects(amountIn, slippage) \/ HandlerRejects(amountIn, slippage)

\* POST /execute with a body that fails validation: reply 400.
PostExecuteRejected(amountIn, slippage) ==
    /\ http.n < MaxPosts
    /\ RequestRejected(amountIn, slippage)
    /\ http' = [n |-> http.n + 1, amountIn |-> amountIn, slippage |-> slippage,
                reply |-> "400"]
    /\ UNCHANGED <<now, mgrVars, readResult, quoteVars, swapVars, written, wsVars, selVars,
                   dbVars, redisVars, jobs, emitted, workerVars, submitVars,
                   cancelVars, auxVars, faults>>

\* POST /execute with a valid body: the order object is built and submitOrder
\* runs to the end of persistOrder.
PostExecuteAccepted(s, o, amountIn, slippage) ==
    /\ http.n < MaxPosts
    /\ ~RequestRejected(amountIn, slippage)
    /\ NextSubmit(s)
    /\ OrderInsertAccepted(o)
    /\ http' = [n |-> http.n + 1, amountIn |-> amountIn, slippage |-> slippage,
                reply |-> ""]
    /\ dbStatus' = [dbStatus EXCEPT ![o] = SubmittedStatus]
    /\ dbExec' = [dbExec EXCEPT ![o] = NoData]
    /\ sOrder' = [sOrder EXCEPT ![s] = o]
    /\ sPc' = [sPc EXCEPT ![s] = "add"]
    /\ sHist' = [sHist EXCEPT ![s].persisted = SubmittedStatus]
    /\ written' = [written EXCEPT ![o] = @ \cup {SubmittedStatus}]
    /\ UNCHANGED <<now, mgrVars, readResult, quoteVars, swapVars, wsVars, selVars, events,
                   decisions, redisVars, jobs, emitted, workerVars, sSub, sErr,
                   cancelVars, auxVars, faults>>

\* ------------------------------------------------- BullMQ worker, processOrder
OrderOf(w) == jobs[wJob[w]].jobId

\* Faulty variant, not the code: a job that is already being processed is handed out again.
CanFetchActive(job) == job.state \in {"waiting", "active"}

\* A job is handed to a worker when it waits in the queue.
CanFetch(job) == job.state = "waiting"

\* Worker slots are interchangeable: the lowest idle slot takes the job.
LowestIdle(w) == wPc[w] = "idle" /\ \A v \in Workers : v < w => wPc[v] # "idle"

\* The worker takes a job and calls processOrder(job.data); processOrder runs
\* to its first await, the redis.hset of updateOrderStatus(id, 'routing').
WorkerFetch(w) ==
    /\ LowestIdle(w)
    /\ \E i \in DOMAIN jobs :
          /\ CanFetch(jobs[i])
          /\ jobs' = [jobs EXCEPT ![i].state = "active"]
          /\ wJob' = [wJob EXCEPT ![w] = i]
    /\ wPc' = [wPc EXCEPT ![w] = "routing"]
    /\ wSub' = [wSub EXCEPT ![w] = 1]
    /\ wErr' = [wErr EXCEPT ![w] = ""]
    /\ wDex' = [wDex EXCEPT ![w] = ""]
    /\ wHist' = [wHist EXCEPT ![w] = NoHist]
    /\ UNCHANGED <<now, mgrVars, apiVars, quoteVars, swapVars, written, wsVars, selVars, dbVars, redisVars, emitted, submitVars, cancelVars, auxVars,
                   faults>>

\* The statuses processOrder passes to updateOrderStatus.
TransitionPcs == {"routing", "building", "submitted", "confirmed", "failed"}

TransitionData(w) ==
    CASE wPc[w] = "confirmed" -> Outcome(wDex[w])
      [] wPc[w] = "failed" -> ErrorData(wErr[w])
      [] OTHER -> NoData

\* Where processOrder continues after updateOrderStatus(status) returned.
AfterTransition(pc) ==
    CASE pc = "routing" -> "quotes"
      [] pc = "building" -> "submitted"
      [] pc = "submitted" -> "executeSwap"
      [] pc = "confirmed" -> "metrics"
      [] pc = "failed" -> "metricsFailed"

SubAfterTransition(pc) ==
    IF pc \in {"routing", "submitted"} THEN 0 ELSE 1

\* Faulty variant, not the code: no catch block, every error leaves processOrder at once.
RaiseUncaught(w, msg) ==
    /\ wErr' = [wErr EXCEPT ![w] = msg]
    /\ wPc' = [wPc EXCEPT ![w] = "throw"]
    /\ wSub' = [wSub EXCEPT ![w] = 0]

\* An error thrown at position pc: inside the try block it is caught and
\* processOrder goes on to updateOrderStatus(id, 'failed', {error}); inside the
\* catch block it leaves processOrder.
Raise(w, msg) ==
    /\ wErr' = [wErr EXCEPT ![w] = msg]
    /\ IF wPc[w] \in {"failed", "metricsFailed"}
       THEN /\ wPc' = [wPc EXCEPT ![w] = "throw"]
            /\ wSub' = [wSub EXCEPT ![w] = 0]
       ELSE /\ wPc' = [wPc EXCEPT ![w] = "failed"]
            /\ wSub' = [wSub EXCEPT ![w] = 1]

\* updateOrderStatus: await redis.hset
WorkerHset(w) ==
    /\ wPc[w] \in TransitionPcs /\ wSub[w] = 1
    /\ RedisHset(OrderOf(w), wPc[w], TransitionData(w))
    /\ wSub' = [wSub EXCEPT ![w] = 2]
    /\ UNCHANGED <<now, mgrVars, apiVars, quoteVars, swapVars, written, wsVars, selVars, dbVars, stats, jobs, emitted, wJob, wPc, wErr, wDex, wHist,
                   submitVars, cancelVars, auxVars, faults>>

\* updateOrderStatus: await UPDATE orders
WorkerUpdate(w) ==
    /\ wPc[w] \in TransitionPcs /\ wSub[w] = 2
    /\ PgUpdateOrder(OrderOf(w), wPc[w], TransitionData(w))
    /\ wSub' = [wSub EXCEPT ![w] = 3]
    /\ UNCHANGED <<now, mgrVars, apiVars, quoteVars, swapVars, wsVars, selVars, events, decisions, redisVars, jobs, emitted, wJob, wPc, wErr,
                   wDex, wHist, submitVars, cancelVars, auxVars, faults>>

\* updateOrderStatus: await INSERT INTO order_events
WorkerInsert(w) ==
    /\ wPc[w] \in TransitionPcs /\ wSub[w] = 3
    /\ IF EventInsertAccepted(OrderOf(w))
       THEN /\ PgInsertEvent(OrderOf(w), wPc[w], TransitionData(w))
            /\ wSub' = [wSub EXCEPT ![w] = 4]
            /\ wHist' = [wHist EXCEPT ![w].trans =
                          Append(@, [status |-> wPc[w], data |-> TransitionData(w)])]
            /\ UNCHANGED <<wPc, wErr>>
       ELSE /\ Raise(w, "foreign key")
            /\ UNCHANGED <<events, wHist>>
    /\ UNCHANGED <<now, mgrVars, apiVars, quoteVars, swapVars, written, wsVars, selVars, dbStatus, dbExec, decisions, redisVars, jobs, emitted, wJob,
                   wDex, submitVars, cancelVars, auxVars, faults>>

\* updateOrderStatus: wsManager.emitToOrder, return; processOrder runs on to
\* its next await.
WorkerEmit(w) ==
    /\ wPc[w] \in TransitionPcs /\ wSub[w] = 4
    /\ EmitToOrder(OrderOf(w), wPc[w])
    /\ wPc' = [wPc EXCEPT ![w] = AfterTransition(wPc[w])]
    /\ wSub' = [wSub EXCEPT ![w] = SubAfterTransition(wPc[w])]
    /\ UNCHANGED <<now, mgrVars, apiVars, quoteVars, swapVars, written, selVars, dbVars, redisVars, jobs, wJob, wErr, wDex, wHist,
                   submitVars, cancelVars, auxVars, faults>>

\* Faulty variant, not the code: sendMessage lets the error of socket.send out,
\* through emitToOrder and updateOrderStatus into processOrder.
SendErrorSurfaces(w) == Raise(w, "send failed")

\* sendMessage caught the error of socket.send: emitToOrder and
\* updateOrderStatus return normally and processOrder runs on.
SendErrorCaught(w) ==
    /\ wPc' = [wPc EXCEPT ![w] = AfterTransition(wPc[w])]
    /\ wSub' = [wSub EXCEPT ![w] = SubAfterTransition(wPc[w])]
    /\ UNCHANGED wErr

\* updateOrderStatus: wsManager.emitToOrder with a subscriber whose socket.send
\* throws.
WorkerEmitThrows(w) ==
    /\ wPc[w] \in TransitionPcs /\ wSub[w] = 4
    /\ connections[OrderOf(w)]
    /\ faults < MaxFaults
    /\ faults' = faults + 1
    /\ emitted' = [emitted EXCEPT ![OrderOf(w)] = Append(@, wPc[w])]
    /\ SendMessageThrows(OrderOf(w))
    /\ SendErrorCaught(w)
    /\ wHist' = [wHist EXCEPT ![w].sendErrs = @ + 1]
    /\ UNCHANGED <<now, mgrVars, apiVars, quoteVars, swapVars, written, selVars, dbVars, redisVars, jobs, wJob, wDex,
                   submitVars, cancelVars, auxVars>>

\* Promise.all([getRaydiumQuote, getMeteorQuote]) resolves; selectBestDex;
\* processOrder awaits persistRoutingDecision.
GetQuotes(w) ==
    /\ wPc[w] = "quotes"
    /\ \E rv \in RaydiumVariance, rl \in RaydiumLiquidity,
          mv \in MeteoraVariance, ml \in MeteoraLiquidity :
          wDex' = [wDex EXCEPT ![w] =
                     selectBestDex(getRaydiumQuote(OrderAmountIn, rv, rl),
                                   getMeteorQuote(OrderAmountIn, mv, ml)).dex]
    /\ wPc' = [wPc EXCEPT ![w] = "persistDecision"]
    /\ wHist' = [wHist EXCEPT ![w].quotes = TRUE, ![w].quoteCalls = @ + 1]
    /\ UNCHANGED <<now, mgrVars, apiVars, quoteVars, swapVars, written, wsVars, selVars, dbVars, redisVars, jobs, emitted, wJob, wSub, wErr,
                   submitVars, cancelVars, auxVars, faults>>

\* One of the two quote promises rejects (a venue error or timeout):
\* Promise.all rejects with its error.
QuotesFail(w) ==
    /\ wPc[w] = "quotes"
    /\ faults < MaxFaults
    /\ faults' = faults + 1
    /\ \E msg \in {"raydium quote failed", "meteora quote failed"} : Raise(w, msg)
    /\ wHist' = [wHist EXCEPT ![w].quoteErr = TRUE, ![w].quoteCalls = @ + 1]
    /\ UNCHANGED <<now, mgrVars, apiVars, quoteVars, swapVars, written, wsVars, selVars, dbVars, redisVars, jobs, emitted, wJob, wDex,
                   submitVars, cancelVars, auxVars>>

\* A venue that is down: its quote promise rejects in every invocation.
VenueOutage(w) ==
    /\ wPc[w] = "quotes"
    /\ Raise(w, "raydium quote failed")
    /\ wHist' = [wHist EXCEPT ![w].quoteErr = TRUE, ![w].quoteCalls = @ + 1]
    /\ UNCHANGED <<now, mgrVars, apiVars, quoteVars, swapVars, written, wsVars, selVars,
                   dbVars, redisVars, jobs, emitted, wJob, wDex, submitVars,
                   cancelVars, auxVars, faults>>

\* persistRoutingDecision: INSERT INTO routing_decisions; then the redis.hset of
\* updateOrderStatus(id, 'building') is awaited.
PersistRoutingDecision(w) ==
    /\ wPc[w] = "persistDecision"
    /\ decisions' = [decisions EXCEPT ![OrderOf(w)] = Append(@, wDex[w])]
    /\ wPc' = [wPc EXCEPT ![w] = "building"]
    /\ wSub' = [wSub EXCEPT ![w] = 1]
    /\ wHist' = [wHist EXCEPT ![w].decs = @ + 1]
    /\ UNCHANGED <<now, mgrVars, apiVars, quoteVars, swapVars, written, wsVars, selVars, dbStatus, dbExec, events, redisVars, jobs, emitted, wJob,
                   wErr, wDex, submitVars, cancelVars, auxVars, faults>>

\* dexRouter.executeSwap(routingDecision.dex, order) resolves.
ExecuteSwap(w) ==
    /\ wPc[w] = "executeSwap"
    /\ wPc' = [wPc EXCEPT ![w] = "confirmed"]
    /\ wSub' = [wSub EXCEPT ![w] = 1]
    /\ wHist' = [wHist EXCEPT ![w].swaps = @ + 1]
    /\ UNCHANGED <<now, mgrVars, apiVars, quoteVars, swapVars, written, wsVars, selVars, dbVars, redisVars, jobs, emitted, wJob, wErr, wDex,
                   submitVars, cancelVars, auxVars, faults>>

\* dexRouter.executeSwap rejects.
ExecuteSwapFail(w) ==
    /\ wPc[w] = "executeSwap"
    /\ faults < MaxFaults
    /\ faults' = faults + 1
    /\ Raise(w, "swap failed")
    /\ wHist' = [wHist EXCEPT ![w].swaps = @ + 1]
    /\ UNCHANGED <<now, mgrVars, apiVars, quoteVars, swapVars, written, wsVars, selVars, dbVars, redisVars, jobs, emitted, wJob, wDex,
                   submitVars, cancelVars, auxVars>>

\* updateMetrics: await redis.incr('stats:total_orders'), on either path.
IncrTotal(w) ==
    /\ wPc[w] \in {"metrics", "metricsFailed"} /\ wSub[w] = 1
    /\ stats' = [stats EXCEPT !.total = @ + 1]
    /\ incrs' = [incrs EXCEPT ![OrderOf(w)].total = @ + 1]
    /\ wSub' = [wSub EXCEPT ![w] = 2]
    /\ wHist' = [wHist EXCEPT ![w].incTotal = @ + 1]
    /\ UNCHANGED <<now, mgrVars, apiVars, quoteVars, swapVars, written, wsVars, selVars, dbVars, cache, jobs, emitted, wJob, wPc, wErr, wDex,
                   submitVars, cancelVars, quoted, faults>>

\* updateMetrics(dex, true): await redis.incr('stats:successful_orders')
IncrSuccessful(w) ==
    /\ wPc[w] = "metrics" /\ wSub[w] = 2
    /\ stats' = [stats EXCEPT !.successful = @ + 1]
    /\ incrs' = [incrs EXCEPT ![OrderOf(w)].successful = @ + 1]
    /\ wSub' = [wSub EXCEPT ![w] = 3]
    /\ wHist' = [wHist EXCEPT ![w].incOk = @ + 1]
    /\ UNCHANGED <<now, mgrVars, apiVars, quoteVars, swapVars, written, wsVars, selVars, dbVars, cache, jobs, emitted, wJob, wPc, wErr, wDex,
                   submitVars, cancelVars, quoted, faults>>

\* updateMetrics(dex, true): if (dex) await redis.incr(`stats:${dex}_routed`);
\* processOrder then returns executionData.
IncrRouted(w) ==
    /\ wPc[w] = "metrics" /\ wSub[w] = 3
    /\ stats' = IF wDex[w] = "raydium" THEN [stats EXCEPT !.raydium = @ + 1]
                ELSE IF wDex[w] = "meteora" THEN [stats EXCEPT !.meteora = @ + 1]
                ELSE stats
    /\ wPc' = [wPc EXCEPT ![w] = "return"]
    /\ wSub' = [wSub EXCEPT ![w] = 0]
    /\ UNCHANGED <<now, mgrVars, apiVars, quoteVars, swapVars, written, wsVars, selVars, dbVars, cache, jobs, emitted, wJob, wErr, wDex, wHist,
                   submitVars, cancelVars, auxVars, faults>>

\* updateMetrics('', false): await redis.incr('stats:failed_orders'); the catch
\* block then rethrows.
IncrFailed(w) ==
    /\ wPc[w] = "metricsFailed" /\ wSub[w] = 2
    /\ stats' = [stats EXCEPT !.failed = @ + 1]
    /\ incrs' = [incrs EXCEPT ![OrderOf(w)].failed = @ + 1]
    /\ wPc' = [wPc EXCEPT ![w] = "throw"]
    /\ wSub' = [wSub EXCEPT ![w] = 0]
    /\ wHist' = [wHist EXCEPT ![w].incFailed = @ + 1]
    /\ UNCHANGED <<now, mgrVars, apiVars, quoteVars, swapVars, written, wsVars, selVars, dbVars, cache, jobs, emitted, wJob, wErr, wDex,
                   submitVars, cancelVars, quoted, faults>>

Release(w) ==
    /\ wJob' = [wJob EXCEPT ![w] = 0]
    /\ wPc' = [wPc EXCEPT ![w] = "idle"]
    /\ wSub' = [wSub EXCEPT ![w] = 0]
    /\ wErr' = [wErr EXCEPT ![w] = ""]
    /\ wDex' = [wDex EXCEPT ![w] = ""]
    /\ wHist' = [wHist EXCEPT ![w] = NoHist]

\* processOrder returned: the job is completed.
ProcessReturn(w) ==
    /\ wPc[w] = "return"
    /\ jobs' = [jobs EXCEPT ![wJob[w]].state = "completed",
                            ![wJob[w]].attemptsMade = @ + 1]
    /\ Release(w)
    /\ quoted' = [quoted EXCEPT ![OrderOf(w)] = @ \/ wHist[w].quotes]
    /\ UNCHANGED <<now, mgrVars, apiVars, quoteVars, swapVars, written, wsVars, selVars, dbVars, redisVars, emitted, submitVars, cancelVars, incrs,
                   faults>>

\* Faulty variant, not the code: no limit on the attempts.
RetryForever(attemptsMade) == "waiting"

\* Job state after an attempt that threw: retried while attempts remain.
StateAfterFailure(attemptsMade) ==
    IF attemptsMade < Attempts THEN "waiting" ELSE "failed"

\* processOrder threw: the job is retried (after its backoff) or failed.
ProcessThrow(w) ==
    /\ wPc[w] = "throw"
    /\ jobs' = [jobs EXCEPT
                  ![wJob[w]].state = StateAfterFailure(jobs[wJob[w]].attemptsMade + 1),
                  ![wJob[w]].attemptsMade = @ + 1]
    /\ Release(w)
    /\ quoted' = [quoted EXCEPT ![OrderOf(w)] = @ \/ wHist[w].quotes]
    /\ UNCHANGED <<now, mgrVars, apiVars, quoteVars, swapVars, written, wsVars, selVars, dbVars, redisVars, emitted, submitVars, cancelVars, incrs,
                   faults>>

\* Positions of processOrder that await a Redis or PostgreSQL operation.
AtStoreOp(w) ==
    \/ wPc[w] \in TransitionPcs /\ wSub[w] \in 1..3
    \/ wPc[w] = "persistDecision"
    \/ wPc[w] = "metrics" /\ wSub[w] \in 1..3
    \/ wPc[w] = "metricsFailed" /\ wSub[w] \in 1..2

\* A failing redis.hset / redis.incr / pgPool.query inside processOrder: the
\* operation has no effect and its error is thrown at the await.
WorkerFault(w) ==
    /\ faults < MaxFaults
    /\ AtStoreOp(w)
    /\ Raise(w, "store failed")
    /\ faults' = faults + 1
    /\ UNCHANGED <<now, mgrVars, apiVars, quoteVars, swapVars, written, wsVars, selVars, dbVars, redisVars, jobs, emitted, wJob, wDex, wHist,
                   submitVars, cancelVars, auxVars>>

\* -------------------------------------------------- DELETE /api/orders/:orderId
\* getOrder and the status check: 404 for no row, 400 unless 'pending'.
CancelReply(status) ==
    IF status = "none" THEN "404"
    ELSE IF status # "pending" THEN "400"
    ELSE "update"

CancelRead(c, o) ==
    /\ NextCancel(c)
    /\ cOrder' = [cOrder EXCEPT ![c] = o]
    /\ cPc' = [cPc EXCEPT ![c] = CancelReply(dbStatus[o])]
    /\ UNCHANGED <<now, mgrVars, apiVars, quoteVars, swapVars, written, wsVars, selVars, dbVars, redisVars, jobs, emitted, workerVars, submitVars,
                   auxVars, faults>>

\* UPDATE orders SET status = 'cancelled', updated_at WHERE id
CancelUpdate(c) ==
    /\ cPc[c] = "update"
    /\ dbStatus' = [dbStatus EXCEPT ![cOrder[c]] =
                      IF @ = "none" THEN @ ELSE "cancelled"]
    /\ written' = [written EXCEPT ![cOrder[c]] =
                     IF dbStatus[cOrder[c]] = "none" THEN @ ELSE @ \cup {"cancelled"}]
    /\ cPc' = [cPc EXCEPT ![c] = "insert"]
    /\ UNCHANGED <<now, mgrVars, apiVars, quoteVars, swapVars, wsVars, selVars, dbExec, events, decisions, redisVars, jobs, emitted,
                   workerVars, submitVars, cOrder, auxVars, faults>>

\* INSERT INTO order_events (cancelled, {reason}); reply 200.
CancelInsert(c) ==
    /\ cPc[c] = "insert"
    /\ PgInsertEvent(cOrder[c], "cancelled", CancelData)
    /\ cPc' = [cPc EXCEPT ![c] = "200"]
    /\ UNCHANGED <<now, mgrVars, apiVars, quoteVars, swapVars, written, wsVars, selVars, dbStatus, dbExec, decisions, redisVars, jobs, emitted,
                   workerVars, submitVars, cOrder, auxVars, faults>>

\* A failing query inside the handler: reply 500.
CancelFault(c, o) ==
    /\ faults < MaxFaults
    /\ \/ NextCancel(c) /\ cOrder' = [cOrder EXCEPT ![c] = o]
       \/ cPc[c] \in {"update", "insert"} /\ o = cOrder[c] /\ UNCHANGED cOrder
    /\ cPc' = [cPc EXCEPT ![c] = "500"]
    /\ faults' = faults + 1
    /\ UNCHANGED <<now, mgrVars, apiVars, quoteVars, swapVars, written, wsVars, selVars, dbVars, redisVars, jobs, emitted, workerVars, submitVars,
                   auxVars>>

\* ------------------------------------------ getOrder, getOrderEvents, getMetrics
\* Time passes on the database server.
Tick ==
    /\ now < MaxClock
    /\ now' = now + 1
    /\ UNCHANGED <<mgrVars, apiVars, quoteVars, swapVars, written, wsVars, selVars, dbVars,
                   redisVars, jobs, emitted, workerVars, submitVars, cancelVars,
                   auxVars, faults>>

\* The orders of the rows in which a query may return them.
Orderings(rows) == Permutations(DOMAIN rows)

\* Faulty variant, not the code: the query has no ORDER BY.
Unordered(rows) ==
    {[i \in DOMAIN rows |-> rows[p[i]]] : p \in Orderings(rows)}

\* ORDER BY timestamp ASC: the rows by ascending timestamp; rows with equal
\* timestamps come in any order.
OrderByTimestamp(rows) ==
    {[i \in DOMAIN rows |-> rows[p[i]]] :
        p \in {q \in Orderings(rows) :
                  \A i, j \in DOMAIN rows : i < j => rows[q[i]].ts <= rows[q[j]].ts}}

Reads(result) ==
    /\ readResult.reads < MaxReads
    /\ readResult' = [result EXCEPT !.reads = readResult.reads + 1]
    /\ UNCHANGED <<now, mgrVars, http, quoteVars, swapVars, written, wsVars, selVars, dbVars,
                   redisVars, jobs, emitted, workerVars, submitVars, cancelVars,
                   auxVars, faults>>

\* getOrder: SELECT * FROM orders WHERE id; null when there is no row.
GetOrder(o) ==
    Reads([NoRead EXCEPT !.op = "getOrder", !.id = o,
                         !.found = (dbStatus[o] # "none"),
                         !.status = IF dbStatus[o] # "none" THEN dbStatus[o] ELSE ""])

\* getOrderEvents: SELECT * FROM order_events WHERE order_id ORDER BY timestamp ASC
GetOrderEvents(o) ==
    \E rows \in OrderByTimestamp(events[o]) :
        Reads([NoRead EXCEPT !.op = "getOrderEvents", !.id = o, !.rows = rows])

\* getMetrics: redis.get of the five counters.
GetMetrics ==
    Reads([NoRead EXCEPT !.op = "getMetrics",
                         !.metrics = <<stats.total, stats.successful, stats.failed,
                                       stats.raydium, stats.meteora>>])

\* ------------------------------------------------------------ WebSocketManager
\* POST /execute registers the route /ws/orders/<id> once submitOrder resolved.
RouteRegistered(o) ==
    \E s \in SubmitCalls : sPc[s] = "resolved" /\ sOrder[s] = o

Connects(o) == Cardinality({i \in DOMAIN delivered[o] : delivered[o][i] = "connected"})

\* handleWebSocketConnection: connections.set(orderId, connection), then the
\* 'connected' message is sent on the new socket.
HandleWebSocketConnection(o) ==
    /\ RouteRegistered(o)
    /\ Connects(o) < MaxConnections
    /\ connections' = [connections EXCEPT ![o] = TRUE]
    /\ delivered' = [delivered EXCEPT ![o] = Append(@, "connected")]
    /\ UNCHANGED <<now, mgrVars, apiVars, quoteVars, swapVars, written, selVars, dbVars, redisVars, jobs, emitted, workerVars,
                   submitVars, cancelVars, auxVars, faults>>

\* socket 'close' / 'error' event: connections.delete(orderId).
SocketClose(o) ==
    /\ connections[o]
    /\ connections' = [connections EXCEPT ![o] = FALSE]
    /\ UNCHANGED <<now, mgrVars, apiVars, quoteVars, swapVars, written, delivered, selVars, dbVars, redisVars, jobs, emitted,
                   workerVars, submitVars, cancelVars, auxVars, faults>>

\* ------------------------------------------- WebSocketManager, called on its own
\* The manager as its unit tests drive it: sockets are handed to
\* handleWebSocketConnection, messages are sent, sockets fire events. Every
\* method is synchronous, so one call is one step.
WsOrders == {"o1", "o2"}

\* connections: Map<orderId, connection>, kept in insertion order.
MapHas(map, id) == \E i \in DOMAIN map : map[i].id = id

MapGet(map, id) == map[CHOOSE i \in DOMAIN map : map[i].id = id].ch

\* Faulty variant, not the code: an id that has an entry keeps it.
MapSetIfAbsent(map, id, c) ==
    IF MapHas(map, id) THEN map ELSE Append(map, [id |-> id, ch |-> c])

\* connections.set(orderId, connection)
MapSet(map, id, c) ==
    IF MapHas(map, id)
    THEN [i \in DOMAIN map |-> IF map[i].id = id THEN [id |-> id, ch |-> c] ELSE map[i]]
    ELSE Append(map, [id |-> id, ch |-> c])

IsNot(id) == [e \in [id : WsOrders, ch : Channels] |-> e.id # id]

MapDelete(map, id) == SelectSeq(map, LAMBDA e : IsNot(id)[e])

MapChannels(map) == {map[i].ch : i \in DOMAIN map}

hasConnection(id) == MapHas(wsMap, id)

\* What a call leaves behind: the Map, the sockets, the sockets it called
\* send on, and whether it threw to its caller.
Result(map, sockets, attempted, threw) ==
    [map |-> map, chan |-> sockets, attempted |-> attempted, threw |-> threw]

\* Faulty variant, not the code: no check for a missing connection.
sendMessageUnchecked(map, sockets, id, status, serializable) ==
    IF MapHas(map, id)
    THEN Result(map, [sockets EXCEPT ![MapGet(map, id)].tried = @ + 1,
                                     ![MapGet(map, id)].sent = Append(@, [id |-> id, status |-> status])],
                {MapGet(map, id)}, FALSE)
    ELSE Result(map, sockets, {}, TRUE)

\* Faulty variant, not the code: the catch block keeps the connection.
sendMessageKeeping(map, sockets, id, status, serializable) ==
    IF ~MapHas(map, id) THEN Result(map, sockets, {}, FALSE)
    ELSE IF ~serializable THEN Result(map, sockets, {}, FALSE)
    ELSE IF sockets[MapGet(map, id)].sendThrows
    THEN Result(map, [sockets EXCEPT ![MapGet(map, id)].tried = @ + 1],
                {MapGet(map, id)}, FALSE)
    ELSE Result(map, [sockets EXCEPT ![MapGet(map, id)].tried = @ + 1,
                                     ![MapGet(map, id)].sent = Append(@, [id |-> id, status |-> status])],
                {MapGet(map, id)}, FALSE)

\* sendMessage(orderId, message): no connection, return; JSON.stringify and
\* socket.send inside try; catch: logError, connections.delete(orderId).
sendMessage(map, sockets, id, status, serializable) ==
    IF ~MapHas(map, id)
    THEN Result(map, sockets, {}, FALSE)
    ELSE LET c == MapGet(map, id)
         IN  IF ~serializable
             THEN Result(MapDelete(map, id), sockets, {}, FALSE)
             ELSE IF sockets[c].sendThrows
             THEN Result(MapDelete(map, id), [sockets EXCEPT ![c].tried = @ + 1],
                         {c}, FALSE)
             ELSE Result(map, [sockets EXCEPT ![c].tried = @ + 1,
                                              ![c].sent = Append(@, [id |-> id, status |-> status])],
                         {c}, FALSE)

\* Faulty variant, not the code: the 'connected' message is sent before the
\* connection is stored.
attachSendFirst(map, sockets, id, c) ==
    LET sent == sendMessage(map, sockets, id, "connected", TRUE)
    IN  Result(MapSet(sent.map, id, c), sent.chan, sent.attempted, sent.threw)

\* handleWebSocketConnection(orderId, socket, request): connections.set, then
\* sendMessage(orderId, {status: 'connected'}).
handleWebSocketConnection(map, sockets, id, c) ==
    sendMessage(MapSet(map, id, c), sockets, id, "connected", TRUE)

\* broadcast(message): JSON.stringify outside any try; then for each entry of
\* the Map socket.send inside try, catch: logError, connections.delete. Each
\* entry is treated on its own, so the iteration order does not show.
broadcast(map, sockets, status, serializable) ==
    IF ~serializable
    THEN Result(map, sockets, {}, TRUE)
    ELSE Result(SelectSeq(map, LAMBDA e : ~sockets[e.ch].sendThrows),
                [c \in Channels |->
                    IF c \notin MapChannels(map) THEN sockets[c]
                    ELSE IF sockets[c].sendThrows
                    THEN [sockets[c] EXCEPT !.tried = @ + 1]
                    ELSE [sockets[c] EXCEPT !.tried = @ + 1,
                                            !.sent = Append(@, [id |-> "", status |-> status])]],
                MapChannels(map), FALSE)

\* Sockets of the Map up to the first whose close throws, that one included.
RECURSIVE UpToFirstThrow(_, _)
UpToFirstThrow(map, sockets) ==
    IF map = <<>> THEN {}
    ELSE IF sockets[Head(map).ch].closeThrows THEN {Head(map).ch}
    ELSE {Head(map).ch} \cup UpToFirstThrow(Tail(map), sockets)

\* Faulty variant, not the code: no try around socket.close.
closeAllAborting(map, sockets) ==
    IF \E c \in MapChannels(map) : sockets[c].closeThrows
    THEN Result(map,
                [c \in Channels |-> IF c \in UpToFirstThrow(map, sockets)
                                    THEN [sockets[c] EXCEPT !.closed = @ + 1]
                                    ELSE sockets[c]],
                {}, TRUE)
    ELSE Result(<<>>,
                [c \in Channels |-> IF c \in MapChannels(map)
                                    THEN [sockets[c] EXCEPT !.closed = @ + 1]
                                    ELSE sockets[c]],
                {}, FALSE)

\* closeAllConnections(): socket.close inside try for each entry, then
\* connections.clear().
closeAllConnections(map, sockets) ==
    Result(<<>>,
           [c \in Channels |-> IF c \in MapChannels(map)
                               THEN [sockets[c] EXCEPT !.closed = @ + 1]
                               ELSE sockets[c]],
           {}, FALSE)

\* Faulty variant, not the code: the handlers leave the Map alone.
onCloseIgnored(map, id) == map

\* socket.on('close') and socket.on('error'): connections.delete(orderId), with
\* the orderId the handler was registered for.
onCloseOrError(map, id) == MapDelete(map, id)

\* The next socket to be handed to the manager.
NextChannel(c) == chan[c].owner = "" /\ \A d \in Channels : d < c => chan[d].owner # ""

Apply(name, id, c, r) ==
    /\ wsOps < MaxWsOps
    /\ wsOps' = wsOps + 1
    /\ wsMap' = r.map
    /\ chan' = r.chan
    /\ wsOp' = [name |-> name, id |-> id, ch |-> c, attempted |-> r.attempted,
                threw |-> r.threw]
    /\ UNCHANGED <<now, apiVars, quoteVars, swapVars, written, wsVars, selVars, dbVars,
                   redisVars, jobs, emitted, workerVars, submitVars, cancelVars,
                   auxVars, faults>>

\* A client connects to /ws/orders/<id>; its socket.send or socket.close may
\* be throwing from the start.
WsAttach(id, c, sendThrows, closeThrows) ==
    /\ NextChannel(c)
    /\ Apply("attach", id, c,
             handleWebSocketConnection(
                 wsMap,
                 [chan EXCEPT ![c] = [NoSocket EXCEPT !.owner = id,
                                                     !.sendThrows = sendThrows,
                                                     !.closeThrows = closeThrows]],
                 id, c))

\* sendMessage / emitToOrder called for an order id.
WsSend(id, serializable) ==
    Apply("send", id, 0, sendMessage(wsMap, chan, id, "routing", serializable))

WsBroadcast(serializable) ==
    Apply("broadcast", "", 0, broadcast(wsMap, chan, "notice", serializable))

WsCloseAll ==
    Apply("closeAll", "", 0, closeAllConnections(wsMap, chan))

\* The socket's send starts to throw (the peer is gone).
WsSocketBreaks(c) ==
    /\ chan[c].owner # ""
    /\ ~chan[c].sendThrows
    /\ Apply("break", chan[c].owner, c,
             Result(wsMap, [chan EXCEPT ![c].sendThrows = TRUE], {}, FALSE))

\* The socket fires 'close' or 'error'.
WsSocketEvent(c) ==
    /\ chan[c].owner # ""
    /\ ~chan[c].ended
    /\ Apply("event", chan[c].owner, c,
             Result(onCloseOrError(wsMap, chan[c].owner),
                    [chan EXCEPT ![c].ended = TRUE], {}, FALSE))

\* ------------------------------------------------------------ specifications
Next ==
    \/ \E s \in SubmitCalls, o \in SingleOrder : SubmitPersist(s, o)
    \/ \E s \in SubmitCalls, o \in SingleOrder : SubmitPersistDuplicate(s, o)
    \/ \E s \in SubmitCalls : SubmitAdd(s)
    \/ \E s \in SubmitCalls : SubmitHset(s)
    \/ \E s \in SubmitCalls : SubmitUpdate(s)
    \/ \E s \in SubmitCalls : SubmitInsert(s)
    \/ \E s \in SubmitCalls : SubmitEmit(s)
    \/ \E w \in Workers : WorkerFetch(w)
    \/ \E w \in Workers : WorkerHset(w)
    \/ \E w \in Workers : WorkerUpdate(w)
    \/ \E w \in Workers : WorkerInsert(w)
    \/ \E w \in Workers : WorkerEmit(w)
    \/ \E w \in Workers : GetQuotes(w)
    \/ \E w \in Workers : QuotesFail(w)
    \/ \E w \in Workers : PersistRoutingDecision(w)
    \/ \E w \in Workers : ExecuteSwap(w)
    \/ \E w \in Workers : ExecuteSwapFail(w)
    \/ \E w \in Workers : IncrTotal(w)
    \/ \E w \in Workers : IncrSuccessful(w)
    \/ \E w \in Workers : IncrRouted(w)
    \/ \E w \in Workers : IncrFailed(w)
    \/ \E w \in Workers : ProcessReturn(w)
    \/ \E w \in Workers : ProcessThrow(w)

\* Cancellation requests.
Cancellation ==
    \/ \E c \in CancelCalls, o \in SingleOrder : CancelRead(c, o)
    \/ \E c \in CancelCalls : CancelUpdate(c)
    \/ \E c \in CancelCalls : CancelInsert(c)

\* submitOrder and processOrder with Redis, PostgreSQL and the queue answering
\* every operation; a venue's quote or swap may reject, MaxFaults times.
Spec == Init /\ [][Next]_vars

\* The same with cancellation requests arriving.
NextC ==
    \/ Next
    \/ Cancellation

SpecC == Init /\ [][NextC]_vars

\* The same as Spec with up to MaxFaults failing operations inside submitOrder.
NextS ==
    \/ Next
    \/ \E s \in SubmitCalls, o \in SingleOrder : SubmitFault(s, o)

SpecS == Init /\ [][NextS]_vars

\* The same as Spec with up to MaxFaults failing operations inside submitOrder
\* and processOrder.
NextF ==
    \/ NextS
    \/ \E w \in Workers : WorkerFault(w)

SpecF == Init /\ [][NextF]_vars

\* Everything: cancellation, and up to MaxFaults failing operations anywhere.
NextAll ==
    \/ NextC
    \/ \E s \in SubmitCalls, o \in SingleOrder : SubmitFault(s, o)
    \/ \E w \in Workers : WorkerFault(w)
    \/ \E c \in CancelCalls, o \in SingleOrder : CancelFault(c, o)

SpecAll == Init /\ [][NextAll]_vars

\* submitOrder and processOrder with a subscriber attaching to the order's
\* stream and leaving it; up to MaxFaults operations fail inside processOrder:
\* a venue call or the subscriber's socket.send.
NextW ==
    \/ Next
    \/ \E w \in Workers : WorkerEmitThrows(w)
    \/ \E o \in SingleOrder : HandleWebSocketConnection(o)
    \/ \E o \in SingleOrder : SocketClose(o)

SpecW == Init /\ [][NextW]_vars

\* submitOrder and processOrder with a subscriber attaching to the order's
\* stream, the venues answering, and up to MaxFaults Redis / PostgreSQL writes
\* failing inside processOrder.
NextWF ==
    \/ \E s \in SubmitCalls, o \in SingleOrder : SubmitPersist(s, o)
    \/ \E s \in SubmitCalls : SubmitAdd(s)
    \/ \E s \in SubmitCalls : SubmitHset(s)
    \/ \E s \in SubmitCalls : SubmitUpdate(s)
    \/ \E s \in SubmitCalls : SubmitInsert(s)
    \/ \E s \in SubmitCalls : SubmitEmit(s)
    \/ \E w \in Workers : WorkerFetch(w)
    \/ \E w \in Workers : WorkerHset(w)
    \/ \E w \in Workers : WorkerUpdate(w)
    \/ \E w \in Workers : WorkerInsert(w)
    \/ \E w \in Workers : WorkerEmit(w)
    \/ \E w \in Workers : GetQuotes(w)
    \/ \E w \in Workers : PersistRoutingDecision(w)
    \/ \E w \in Workers : ExecuteSwap(w)
    \/ \E w \in Workers : IncrTotal(w)
    \/ \E w \in Workers : IncrSuccessful(w)
    \/ \E w \in Workers : IncrRouted(w)
    \/ \E w \in Workers : IncrFailed(w)
    \/ \E w \in Workers : ProcessReturn(w)
    \/ \E w \in Workers : ProcessThrow(w)
    \/ \E w \in Workers : WorkerFault(w)
    \/ \E o \in SingleOrder : HandleWebSocketConnection(o)

SpecWF == Init /\ [][NextWF]_vars

\* selectBestDex on its own, called on a pair of quotes.
InitSelect ==
    /\ EngineInit
    /\ QuoteIdle
    /\ SwapIdle
    /\ selRaydium \in QuotesOf("raydium")
    /\ selMeteora \in QuotesOf("meteora")
    /\ selDecisions = <<>>

NextSelect == SelectBestDex

SpecSelect == InitSelect /\ [][NextSelect]_vars

\* POST /execute requests, valid or not, with the stores and venues answering.
NextV ==
    \/ \E a \in RequestAmounts, sl \in RequestSlippages : PostExecuteRejected(a, sl)
    \/ \E s \in SubmitCalls, o \in SingleOrder, a \in RequestAmounts, sl \in RequestSlippages :
          PostExecuteAccepted(s, o, a, sl)
    \/ \E s \in SubmitCalls : SubmitAdd(s)
    \/ \E s \in SubmitCalls : SubmitHset(s)
    \/ \E s \in SubmitCalls : SubmitUpdate(s)
    \/ \E s \in SubmitCalls : SubmitInsert(s)
    \/ \E s \in SubmitCalls : SubmitEmit(s)
    \/ \E w \in Workers : WorkerFetch(w)
    \/ \E w \in Workers : WorkerHset(w)
    \/ \E w \in Workers : WorkerUpdate(w)
    \/ \E w \in Workers : WorkerInsert(w)
    \/ \E w \in Workers : WorkerEmit(w)
    \/ \E w \in Workers : GetQuotes(w)
    \/ \E w \in Workers : PersistRoutingDecision(w)
    \/ \E w \in Workers : ExecuteSwap(w)
    \/ \E w \in Workers : IncrTotal(w)
    \/ \E w \in Workers : IncrSuccessful(w)
    \/ \E w \in Workers : IncrRouted(w)
    \/ \E w \in Workers : ProcessReturn(w)

SpecV == Init /\ [][NextV]_vars

\* submitOrder and processOrder with the stores and venues answering, the
\* database clock advancing, and the read methods being called.
NextR ==
    \/ \E s \in SubmitCalls, o \in SingleOrder : SubmitPersist(s, o)
    \/ \E s \in SubmitCalls : SubmitAdd(s)
    \/ \E s \in SubmitCalls : SubmitHset(s)
    \/ \E s \in SubmitCalls : SubmitUpdate(s)
    \/ \E s \in SubmitCalls : SubmitInsert(s)
    \/ \E s \in SubmitCalls : SubmitEmit(s)
    \/ \E w \in Workers : WorkerFetch(w)
    \/ \E w \in Workers : WorkerHset(w)
    \/ \E w \in Workers : WorkerUpdate(w)
    \/ \E w \in Workers : WorkerInsert(w)
    \/ \E w \in Workers : WorkerEmit(w)
    \/ \E w \in Workers : GetQuotes(w)
    \/ \E w \in Workers : PersistRoutingDecision(w)
    \/ \E w \in Workers : ExecuteSwap(w)
    \/ \E w \in Workers : IncrTotal(w)
    \/ \E w \in Workers : IncrSuccessful(w)
    \/ \E w \in Workers : IncrRouted(w)
    \/ \E w \in Workers : ProcessReturn(w)
    \/ Tick
    \/ \E o \in SingleOrder : GetOrder(o)
    \/ \E o \in SingleOrder : GetOrderEvents(o)
    \/ GetMetrics

SpecR == Init /\ [][NextR]_vars

\* The quote methods of MockDexRouter on their own: an amount, and the draws of
\* Math.random() for the price variance and the liquidity.
InitQuote ==
    /\ EngineInit
    /\ SelectIdle
    /\ SwapIdle
    /\ qAmount \in 1..MaxAmountIn
    /\ qQuote = NoQuote

QuoteReturned(quote) ==
    /\ qQuote' = quote
    /\ UNCHANGED <<now, mgrVars, apiVars, qAmount, swapVars, written, wsVars, selVars, dbVars,
                   redisVars, jobs, emitted, workerVars, submitVars, cancelVars,
                   auxVars, faults>>

GetRaydiumQuote ==
    \E variance \in RaydiumVariance, liquidity \in RaydiumLiquidity :
        QuoteReturned(getRaydiumQuote(qAmount, variance, liquidity))

GetMeteorQuote ==
    \E variance \in MeteoraVariance, liquidity \in MeteoraLiquidity :
        QuoteReturned(getMeteorQuote(qAmount, variance, liquidity))

NextQuote ==
    \/ GetRaydiumQuote
    \/ GetMeteorQuote

SpecQuote == InitQuote /\ [][NextQuote]_vars

\* executeSwap of MockDexRouter on its own: an order whose slippage passed the
\* validation of POST /execute, a venue, and the draw of Math.random().
InitSwap ==
    /\ EngineInit
    /\ SelectIdle
    /\ QuoteIdle
    /\ xOrder \in [slippage : MinSlippage..MaxSlippage]
    /\ xResult = NoSwap

ExecuteSwapReturns(dex) ==
    /\ \E random \in 0..(RandomSteps - 1) : xResult' = executeSwap(dex, xOrder, random)
    /\ UNCHANGED <<now, mgrVars, apiVars, quoteVars, xOrder, written, wsVars, selVars,
                   dbVars, redisVars, jobs, emitted, workerVars, submitVars,
                   cancelVars, auxVars, faults>>

NextSwap == \E dex \in DexNames : ExecuteSwapReturns(dex)

SpecSwap == InitSwap /\ [][NextSwap]_vars

\* The engine with a venue that may stay down over all the attempts of a job.
NextRetry ==
    \/ Next
    \/ \E w \in Workers : VenueOutage(w)

SpecRetry == Init /\ [][NextRetry]_vars

\* Every POST /execute request makes an id of its own.
OrderOfCall(s) == IF s = 1 THEN "o1" ELSE "o2"

\* Two orders submitted, taken by workers into routing, cancelled and
\* subscribed to side by side, with the stores answering.
NextTwo ==
    \/ \E s \in SubmitCalls, o \in Orders : o = OrderOfCall(s) /\ SubmitPersist(s, o)
    \/ \E s \in SubmitCalls : SubmitAdd(s)
    \/ \E s \in SubmitCalls : SubmitHset(s)
    \/ \E s \in SubmitCalls : SubmitUpdate(s)
    \/ \E s \in SubmitCalls : SubmitInsert(s)
    \/ \E s \in SubmitCalls : SubmitEmit(s)
    \/ \E w \in Workers : WorkerFetch(w)
    \/ \E w \in Workers : WorkerHset(w)
    \/ \E w \in Workers : WorkerUpdate(w)
    \/ \E w \in Workers : WorkerInsert(w)
    \/ \E w \in Workers : WorkerEmit(w)
    \/ \E c \in CancelCalls, o \in Orders : CancelRead(c, o)
    \/ \E c \in CancelCalls : CancelUpdate(c)
    \/ \E c \in CancelCalls : CancelInsert(c)
    \/ \E o \in Orders : HandleWebSocketConnection(o)

SpecTwo == Init /\ [][NextTwo]_vars

\* The WebSocketManager on its own.
NextWs ==
    \/ \E id \in WsOrders, c \in Channels, st \in BOOLEAN, ct \in BOOLEAN :
          WsAttach(id, c, st, ct)
    \/ \E id \in WsOrders, ok \in BOOLEAN : WsSend(id, ok)
    \/ \E ok \in BOOLEAN : WsBroadcast(ok)
    \/ WsCloseAll
    \/ \E c \in Channels : WsSocketBreaks(c)
    \/ \E c \in Channels : WsSocketEvent(c)

SpecWs == Init /\ [][NextWs]_vars

\* ------------------------------------------------------------------- claims
Statuses(log) == [i \in DOMAIN log |-> log[i].status]

Last(log) == log[Len(log)]

\* The lifecycle graph: pending -> routing -> building -> submitted -> confirmed,
\* any pre-terminal state -> failed, pending -> cancelled.
LifecycleEdges ==
    {<<"pending", "routing">>, <<"routing", "building">>,
     <<"building", "submitted">>, <<"submitted", "confirmed">>,
     <<"pending", "cancelled">>}
    \cup {<<st, "failed">> : st \in {"pending", "routing", "building", "submitted"}}

IsLifecyclePath(log) ==
    \/ log = <<>>
    \/ /\ log[1] = "pending"
       /\ \A i \in 1..(Len(log) - 1) : <<log[i], log[i + 1]>> \in LifecycleEdges

\* C1: the statuses of an order's event rows, in insertion order, always form a
\* path of the lifecycle graph from pending: nothing skipped, repeated or
\* reordered, and nothing after a terminal status.
C1_EventLogIsLifecyclePath ==
    \A o \in Orders : IsLifecyclePath(Statuses(events[o]))

\* The transition to status st is complete in the durable store: the row holds
\* it and its event row is the last one.
Settled(o, st) ==
    /\ dbStatus[o] = st
    /\ events[o] # <<>>
    /\ Last(events[o]).status = st

\* C2: an order that is durably failed is never moved back to routing, and one
\* that is durably confirmed is never moved to failed (the two moves the claim
\* singles out among "no later operation changes it").
C2_TerminalIsFinal ==
    [][\A o \in Orders :
          /\ Settled(o, "failed") => dbStatus'[o] # "routing"
          /\ Settled(o, "confirmed") => dbStatus'[o] # "failed"]_vars

\* The statuses a processing task writes.
TaskStatuses == {"routing", "building", "submitted", "confirmed", "failed"}

\* C3: once the cancellation endpoint has set an order to cancelled and logged
\* it, no step moves it to routing or a later status, or appends an event of
\* such a status for it.
C3_CancelledIsFinal ==
    [][\A o \in Orders :
          Settled(o, "cancelled") =>
              /\ dbStatus'[o] \notin TaskStatuses
              /\ events'[o] # events[o] => Last(events'[o]).status \notin TaskStatuses]_vars

\* C4: a step that writes status cancelled finds the durable status pending.
C4_CancelOnlyFromPending ==
    [][\A o \in Orders :
          (dbStatus'[o] = "cancelled" /\ dbStatus[o] # "cancelled")
              => dbStatus[o] = "pending"]_vars

\* C5: when a Process invocation is about to return or throw, its order's
\* durable status is confirmed or failed.
C5_FinishedIsTerminal ==
    \A w \in Workers :
        wPc[w] \in {"return", "throw"}
            => dbStatus[OrderOf(w)] \in {"confirmed", "failed"}

\* Some Process invocation for the order has finished.
Processed(o) == \E i \in JobsOf(o) : jobs[i].attemptsMade >= 1

\* C6: an order never has more than one routing decision, and has exactly one
\* once an invocation that obtained both quotes has finished.
C6_OneRoutingDecision ==
    \A o \in Orders :
        /\ Len(decisions[o]) <= 1
        /\ (Processed(o) /\ quoted[o]) => Len(decisions[o]) = 1

\* C7: a Process invocation whose quote request failed appends exactly the
\* transitions routing and failed, the latter with the quote's error message,
\* persists no routing decision, never calls executeSwap, and by the time it
\* throws has incremented total_orders and failed_orders once each and
\* successful_orders not at all.
QuoteErrors == {"raydium quote failed", "meteora quote failed"}

QuoteFailurePath(w) ==
    <<[status |-> "routing", data |-> NoData],
      [status |-> "failed", data |-> ErrorData(wErr[w])]>>

JobOver(o) == \E i \in JobsOf(o) : jobs[i].state \in {"completed", "failed"}

\* C8: per order, total_orders is incremented at most once and so is one of
\* successful_orders / failed_orders; once the order's job is over each has
\* been incremented exactly once.
C8_CountersOncePerOrder ==
    \A o \in Orders :
        /\ incrs[o].total <= 1
        /\ incrs[o].successful + incrs[o].failed <= 1
        /\ JobOver(o) =>
              /\ incrs[o].total = 1
              /\ incrs[o].successful + incrs[o].failed = 1

Running(o) == {w \in Workers : wPc[w] # "idle" /\ OrderOf(w) = o}

\* C9: whatever submitOrder calls are made, an order id has at most one job in
\* the queue and at most one Process invocation running.
C9_OneTaskPerOrder ==
    \A o \in Orders :
        /\ Cardinality(JobsOf(o)) <= 1
        /\ Cardinality(Running(o)) <= 1

\* A second submitOrder call for an id arrived while its task was running.
C9_Witness ==
    \E s \in SubmitCalls :
        /\ sPc[s] = "rejected"
        /\ sErr[s] = "duplicate key"
        /\ Running(sOrder[s]) # {}

\* C10: a submitOrder call that resolved inserted the order row with status
\* pending and enqueued the job whose jobId is the order id; a call that failed
\* has rejected with the error of the failing operation, and one whose persist
\* or enqueue failed has appended no event and emitted nothing.
C10_SubmitOutcome ==
    \A s \in SubmitCalls :
        /\ sPc[s] = "resolved" =>
              /\ sErr[s] = ""
              /\ sHist[s].persisted = "pending"
              /\ dbStatus[sOrder[s]] # "none"
              /\ sHist[s].enqueued
              /\ Cardinality(JobsOf(sOrder[s])) = 1
        /\ sErr[s] # "" => sPc[s] = "rejected"
        /\ sErr[s] \in {"persist failed", "duplicate key", "enqueue failed"} =>
              /\ sHist[s].events = 0
              /\ sHist[s].emits = 0

\* One call was rejected because its persist or enqueue failed, another one
\* resolved.
C10_Witness ==
    \E s, r \in SubmitCalls :
        /\ sPc[s] = "rejected" /\ sErr[s] \in {"persist failed", "enqueue failed"}
        /\ sPc[r] = "resolved"

\* The status is visible in the durable store: the row holds it and an event
\* row records it.
Persisted(o, st) ==
    /\ dbStatus'[o] = st
    /\ \E i \in DOMAIN events'[o] : events'[o][i].status = st

\* C11: when an updateOrderStatus call fails (one of its awaited writes
\* rejects), none of its effects stays visible: the cache does not hold the
\* call's status unless the durable row and the event log hold it too.
C11_TransitionAllOrNothing ==
    [][/\ \A w \in Workers :
            (/\ wPc[w] \in TransitionPcs
             /\ wSub[w] \in 1..3
             /\ wPc'[w] # wPc[w])
            => (cache'[OrderOf(w)].status = wPc[w] => Persisted(OrderOf(w), wPc[w]))
       /\ \A s \in SubmitCalls :
            (/\ sPc[s] = "pending"
             /\ sSub[s] \in 1..3
             /\ sPc'[s] = "rejected")
            => (cache'[sOrder[s]].status = "pending" => Persisted(sOrder[s], "pending"))]_vars

\* The updateOrderStatus calls in progress for an order id.
InTransition(o) ==
    {<<"worker", w>> : w \in {v \in Workers : /\ wPc[v] \in TransitionPcs
                                              /\ wSub[v] \in 1..4
                                              /\ OrderOf(v) = o}}
    \cup {<<"submit", s>> : s \in {r \in SubmitCalls : /\ sPc[r] = "pending"
                                                       /\ sOrder[r] = o}}

IsPrefix(a, b) == Len(a) <= Len(b) /\ a = SubSeq(b, 1, Len(a))

\* C12: for one order id at most one updateOrderStatus call is in progress at
\* any time, and the statuses handed to the order's subscriber come in the
\* order of the event rows.
C12_TransitionsOrdered ==
    \A o \in Orders :
        /\ Cardinality(InTransition(o)) <= 1
        /\ IsPrefix(emitted[o], Statuses(events[o]))

\* No operation on the order id is under way: every submitOrder call and every
\* cancellation request has finished and no worker holds a job of it.
Quiet(o) ==
    /\ \A s \in SubmitCalls : sPc[s] \in {"idle", "resolved", "rejected"}
    /\ \A c \in CancelCalls : cPc[c] \notin {"update", "insert"}
    /\ \A w \in Workers : wPc[w] = "idle"

\* C13: between operations the cache holds the status of the durable row, the
\* last event row records that status, and it was the last one handed to the
\* order's subscriber.
C13_SingleChokePoint ==
    \A o \in Orders :
        (Quiet(o) /\ dbStatus[o] # "none") =>
            /\ cache[o].status = dbStatus[o]
            /\ events[o] # <<>> /\ Last(events[o]).status = dbStatus[o]
            /\ emitted[o] # <<>> /\ Last(emitted[o]) = dbStatus[o]

\* The transitions to failed that an invocation has logged.
FailedTransitions(w) ==
    {i \in DOMAIN wHist[w].trans : wHist[w].trans[i].status = "failed"}

\* C14: an invocation that ends by throwing has made exactly one transition to
\* failed, carrying the message of the error it throws, and an invocation that
\* returns a result has met no error.
C14_ErrorsFailOnceAndRethrow ==
    \A w \in Workers :
        /\ wPc[w] = "throw" =>
              /\ wErr[w] # ""
              /\ Cardinality(FailedTransitions(w)) = 1
              /\ \A i \in FailedTransitions(w) :
                    wHist[w].trans[i].data = ErrorData(wErr[w])
        /\ wPc[w] = "return" =>
              /\ wErr[w] = ""
              /\ FailedTransitions(w) = {}

\* C15: a step on which the subscriber's socket.send throws inside
\* updateOrderStatus removes the subscriber and nothing else: the call returns
\* normally with no error recorded, the status it was writing is in the cache,
\* the durable row and the event log, and processOrder goes on to the statement
\* after the call.
C15_SendFailureNotSurfaced ==
    [][\A w \in Workers :
          (/\ wPc[w] \in TransitionPcs
           /\ wSub[w] = 4
           /\ wHist'[w].sendErrs > wHist[w].sendErrs)
          => /\ wPc'[w] = AfterTransition(wPc[w])
             /\ wErr'[w] = wErr[w]
             /\ ~connections'[OrderOf(w)]
             /\ wPc[w] \in written'[OrderOf(w)]
             /\ \E i \in DOMAIN events'[OrderOf(w)] :
                   events'[OrderOf(w)][i].status = wPc[w]
             /\ wHist'[w].trans = wHist[w].trans
             /\ UNCHANGED <<dbVars, redisVars, jobs, delivered, written>>]_vars

\* A send failed during the confirmed transition and the invocation returned.
C15_Witness ==
    \E w \in Workers :
        /\ wPc[w] = "return"
        /\ wHist[w].sendErrs > 0
        /\ dbStatus[OrderOf(w)] = "confirmed"
        /\ ~connections[OrderOf(w)]

Occurrences(seq, x) == Cardinality({i \in DOMAIN seq : seq[i] = x})

\* C16: every order status sent on a subscriber's socket (the messages after
\* 'connected') has been stored in the order's durable row and has an event
\* row, one for each time it was sent.
C16_DeliveredIsPersisted ==
    \A o \in Orders :
        \A i \in DOMAIN delivered[o] :
            delivered[o][i] # "connected" =>
                /\ delivered[o][i] \in written[o]
                /\ Occurrences(delivered[o], delivered[o][i])
                      <= Occurrences(Statuses(events[o]), delivered[o][i])

\* The subscriber has received statuses, and the transition to failed broke
\* off after its cache write: the cache says failed, the durable row does not.
C16_Witness ==
    \E w \in Workers :
        /\ wPc[w] = "throw"
        /\ cache[OrderOf(w)].status = "failed"
        /\ dbStatus[OrderOf(w)] # "failed"
        /\ Len(delivered[OrderOf(w)]) >= 2

TotalCost(quote) == quote.amountOut + quote.estimatedGas

\* The quote of the named venue among the two handed to selectBestDex.
QuoteOf(dex) == IF dex = "raydium" THEN selRaydium ELSE selMeteora

OtherDex(dex) == IF dex = "raydium" THEN "meteora" ELSE "raydium"

\* C17: when the two total costs (amountOut + estimatedGas) differ, the
\* decision names the venue whose total cost is strictly lower, with the reason
\* 'better total cost'.
C17_LowerTotalCostWins ==
    \A i \in DOMAIN selDecisions :
        TotalCost(selRaydium) # TotalCost(selMeteora) =>
            /\ TotalCost(QuoteOf(selDecisions[i].dex))
                  < TotalCost(QuoteOf(OtherDex(selDecisions[i].dex)))
            /\ selDecisions[i].reason = "better total cost"

\* raydium was selected for its lower total cost although its amountOut alone
\* equals meteora's.
C17_Witness ==
    /\ selDecisions # <<>>
    /\ selDecisions[1].dex = "raydium"
    /\ selRaydium.amountOut = selMeteora.amountOut
    /\ TotalCost(selRaydium) < TotalCost(selMeteora)

\* C18: when the two total costs are equal and the liquidities differ, the
\* decision names the venue with the higher liquidity, with the reason 'higher
\* liquidity'.
C18_EqualCostHigherLiquidityWins ==
    \A i \in DOMAIN selDecisions :
        (/\ TotalCost(selRaydium) = TotalCost(selMeteora)
         /\ selRaydium.liquidity # selMeteora.liquidity)
        => /\ QuoteOf(selDecisions[i].dex).liquidity
                 > QuoteOf(OtherDex(selDecisions[i].dex)).liquidity
           /\ selDecisions[i].reason = "higher liquidity"

\* Equal total costs from different amounts and gas; raydium, with the higher
\* liquidity, was selected.
C18_Witness ==
    /\ selDecisions # <<>>
    /\ TotalCost(selRaydium) = TotalCost(selMeteora)
    /\ selRaydium.estimatedGas # selMeteora.estimatedGas
    /\ selRaydium.liquidity > selMeteora.liquidity
    /\ selDecisions[1].dex = "raydium"

C20_DecisionCarriesBothQuotes ==
    \A i \in DOMAIN selDecisions :
        /\ selDecisions[i].alternatives = <<selRaydium, selMeteora>>
        /\ selDecisions[i].dex \in DexNames
        /\ selDecisions[i].price = QuoteOf(selDecisions[i].dex).price
        /\ selDecisions[i].fee = QuoteOf(selDecisions[i].dex).fee
        /\ selDecisions[i].estimatedGas = QuoteOf(selDecisions[i].dex).estimatedGas

\* meteora was selected, and the two quotes differ in price, fee and gas.
C20_Witness ==
    /\ selDecisions # <<>>
    /\ selDecisions[1].dex = "meteora"
    /\ selRaydium.price # selMeteora.price
    /\ selRaydium.fee # selMeteora.fee
    /\ selRaydium.estimatedGas # selMeteora.estimatedGas

\* The step is a call (or socket event) of the named kind on the manager.
WsStep(name) == wsOps' = wsOps + 1 /\ wsOp'.name = name

\* C21: sendMessage for an order id that has no entry in the Map changes
\* nothing: no socket is sent on, no socket or Map entry changes, nothing is
\* thrown.
C21_SendWithoutSubscriberIsNoOp ==
    [][(WsStep("send") /\ ~MapHas(wsMap, wsOp'.id)) =>
          /\ ~wsOp'.threw
          /\ wsOp'.attempted = {}
          /\ wsMap' = wsMap
          /\ chan' = chan]_vars

\* A message was sent for an order id that never had a subscriber while
\* another order id has one.
C21_Witness ==
    /\ wsOp.name = "send"
    /\ \A c \in Channels : chan[c].owner # wsOp.id
    /\ wsMap # <<>>

\* Sends on the socket that threw.
FailedSends(c) == chan[c].tried - Len(chan[c].sent)

\* C22: a socket whose send threw is no longer in the Map, and no call sends
\* on it again: it has at most the one failed send.
C22_FailedSubscriberRemoved ==
    \A c \in Channels :
        /\ FailedSends(c) <= 1
        /\ FailedSends(c) = 1 => c \notin MapChannels(wsMap)

\* The last call was a send for an order id whose only socket had thrown
\* before: nothing was sent on.
C22_Witness ==
    /\ wsOp.name = "send"
    /\ wsOp.attempted = {}
    /\ \E c \in Channels :
          /\ chan[c].owner = wsOp.id
          /\ FailedSends(c) = 1
          /\ Len(chan[c].sent) >= 1
          /\ ~chan[c].ended

\* C23: broadcast never throws, calls send exactly once on every socket that
\* is in the Map when it is called and on no other, removes exactly the
\* entries whose send threw, and delivers the message on every other one.
C23_BroadcastReachesEveryone ==
    [][WsStep("broadcast") =>
          /\ ~wsOp'.threw
          /\ wsOp'.attempted = MapChannels(wsMap)
          /\ \A c \in Channels :
                chan'[c].tried = chan[c].tried + (IF c \in MapChannels(wsMap) THEN 1 ELSE 0)
          /\ MapChannels(wsMap') = {c \in MapChannels(wsMap) : ~chan[c].sendThrows}
          /\ \A c \in MapChannels(wsMap') :
                chan'[c].sent = Append(chan[c].sent, [id |-> "", status |-> "notice"])]_vars

\* C24: closeAllConnections never throws, calls close once on every socket in
\* the Map, and leaves the Map empty, whether or not a close throws.
C24_CloseAllEmptiesMap ==
    [][WsStep("closeAll") =>
          /\ ~wsOp'.threw
          /\ wsMap' = <<>>
          /\ \A c \in Channels :
                chan'[c].closed = chan[c].closed + (IF c \in MapChannels(wsMap) THEN 1 ELSE 0)]_vars

\* closeAllConnections closed two sockets, one of which threw on close.
C24_Witness ==
    /\ wsOp.name = "closeAll"
    /\ wsMap = <<>>
    /\ \E c, d \in Channels :
          /\ c # d
          /\ chan[c].closed = 1 /\ chan[c].closeThrows
          /\ chan[d].closed = 1 /\ ~chan[d].closeThrows

C27_CloseEventUnsubscribes ==
    [][/\ WsStep("event") => ~MapHas(wsMap', wsOp'.id)
       /\ \A c \in Channels :
             chan[c].ended =>
                 /\ chan'[c].tried = chan[c].tried
                 /\ c \notin MapChannels(wsMap')]_vars

\* A send for an order id whose socket fired 'close' reached no socket.
C27_Witness ==
    /\ wsOp.name = "send"
    /\ wsOp.attempted = {}
    /\ \E c \in Channels :
          /\ chan[c].owner = wsOp.id
          /\ chan[c].ended
          /\ FailedSends(c) = 0
          /\ \A d \in Channels : d # c => chan[d].owner # wsOp.id

TerminalStatuses == {"confirmed", "failed", "cancelled"}

\* C26: once a terminal status has been sent to an order's subscriber and the
\* transition that sent it has returned, the order id has no subscriber left.
C26_StreamClosedAtTerminal ==
    \A o \in Orders :
        (/\ delivered[o] # <<>>
         /\ Last(delivered[o]) \in TerminalStatuses
         /\ InTransition(o) = {})
        => ~connections[o]

\* C28: a POST /execute whose amountIn is <= 0 or whose slippage is outside
\* [0.001, 0.5] is answered 400 and changes nothing: no order row, job, event,
\* cache entry, notification or submitOrder call (hence no WebSocket route).
C28_InvalidSubmissionCreatesNothing ==
    [][(/\ http'.n = http.n + 1
        /\ \/ http'.amountIn <= 0
           \/ http'.slippage < 10
           \/ http'.slippage > 5000)
       => /\ http'.reply = "400"
          /\ UNCHANGED <<dbVars, written, redisVars, jobs, emitted, wsVars,
                         submitVars, workerVars>>]_vars

\* A request with a good amount and too large a slippage was answered 400
\* while an earlier order is being processed.
C28_Witness ==
    /\ http.reply = "400"
    /\ http.amountIn > 0
    /\ http.slippage > 5000
    /\ \E o \in Orders : dbStatus[o] = "routing"

\* The rows of b are the rows of a, each as often.
SameRows(a, b) ==
    /\ Len(a) = Len(b)
    /\ \A i \in DOMAIN a :
          Cardinality({j \in DOMAIN a : a[j] = a[i]})
             = Cardinality({j \in DOMAIN b : b[j] = a[i]})

\* C29: a call of getOrder, getOrderEvents or getMetrics changes nothing in
\* PostgreSQL, Redis, the queue or the subscriber map; getOrder finds nothing
\* for an id without a row; getOrderEvents returns exactly the order's event
\* rows, by ascending timestamp.
C29_ReadsAreReadOnly ==
    [][readResult'.reads = readResult.reads + 1 =>
          /\ UNCHANGED <<dbVars, written, redisVars, jobs, emitted, wsVars, mgrVars>>
          /\ readResult'.op = "getOrder" =>
                /\ readResult'.found = (dbStatus[readResult'.id] # "none")
                /\ readResult'.found => readResult'.status = dbStatus[readResult'.id]
          /\ readResult'.op = "getOrderEvents" =>
                /\ SameRows(events[readResult'.id], readResult'.rows)
                /\ \A i, j \in DOMAIN readResult'.rows :
                      i < j => readResult'.rows[i].ts <= readResult'.rows[j].ts
          /\ readResult'.op = "getMetrics" =>
                readResult'.metrics = <<stats.total, stats.successful, stats.failed,
                                        stats.raydium, stats.meteora>>]_vars

\* getOrderEvents returned events logged before and after a clock tick.
C29_Witness ==
    /\ readResult.op = "getOrderEvents"
    /\ Len(readResult.rows) >= 3
    /\ readResult.rows[1].ts < readResult.rows[Len(readResult.rows)].ts

\* C30: every quote of getRaydiumQuote and getMeteorQuote has
\* amountOut = amount * price * (1 - fee), the fee being 0.0025 for raydium and
\* 0.002 for meteora (amountOut in 1/10000 of the product, fees in 1/10000).
C30_AmountOutFormula ==
    qQuote # NoQuote =>
        /\ qQuote.amountOut = qAmount * qQuote.price * (10000 - qQuote.fee)
        /\ qQuote.dex = "raydium" => qQuote.fee = 25
        /\ qQuote.dex = "meteora" => qQuote.fee = 20
        /\ qQuote.dex \in {"raydium", "meteora"}

\* A raydium quote for an amount above one at a price off the base price.
C30_Witness ==
    /\ qQuote.dex = "raydium"
    /\ qAmount > 1
    /\ qQuote.price # BasePrice * 100
    /\ qQuote.amountOut > 0

\* C31: in every executeSwap result the slippage factor lies in
\* [1 - order.slippage, 1] and executedPrice is basePrice times that factor.
C31_SlippageWithinTolerance ==
    xResult # NoSwap =>
        /\ xResult.slippageImpact <= SwapScale
        /\ xResult.slippageImpact >= SwapScale - xOrder.slippage * RandomSteps
        /\ xResult.executedPrice = BasePrice * xResult.slippageImpact

\* A swap at the largest tolerance whose price moved.
C31_Witness ==
    /\ xOrder.slippage = 5000
    /\ xResult.dex = "meteora"
    /\ xResult.slippageImpact < SwapScale

\* An event row of status pending comes after one a processing task wrote.
PendingLoggedLate(log) ==
    \E i, j \in DOMAIN log :
        i < j /\ log[i].status \in TaskStatuses /\ log[j].status = "pending"

\* C32: for every order the pending transition of submitOrder is recorded
\* before any transition of the worker: no event row of routing or a later
\* status precedes the pending row, and neither orders.status nor the cached
\* status goes from routing or a later status back to pending.
C32_PendingBeforeProcess ==
    /\ [](\A o \in Orders : ~PendingLoggedLate(events[o]))
    /\ [][\A o \in Orders :
            /\ dbStatus[o] \in TaskStatuses => dbStatus'[o] # "pending"
            /\ cache[o].status \in TaskStatuses => cache'[o].status # "pending"]_vars

\* C33: a submitOrder call that rejected left no accepted order behind: a call
\* whose persist failed went no further, and the order a rejected call has
\* inserted has no job in the queue and is never given a status of a
\* processing task.
C33_RejectedIsNotAccepted ==
    \A s \in SubmitCalls :
        sPc[s] = "rejected" =>
            /\ sHist[s].persisted = "" => ~sHist[s].enqueued
            /\ sHist[s].persisted # "" =>
                  /\ JobsOf(sOrder[s]) = {}
                  /\ written[sOrder[s]] \cap TaskStatuses = {}

\* The sockets handed to the manager for the order id, and the last of them.
ChannelsOf(id) == {c \in Channels : chan[c].owner = id}

LatestChannel(id) == CHOOSE c \in ChannelsOf(id) : \A d \in ChannelsOf(id) : d <= c

\* C34: an order id has at most one entry in the Map, and it holds the socket
\* of the latest connection for the id; a message for the id goes to no other
\* socket, and a connection for an id closes no socket.
C34_LaterAttachSupersedes ==
    /\ [](\A i, j \in DOMAIN wsMap :
             /\ wsMap[i].id = wsMap[j].id => i = j
             /\ wsMap[i].ch = LatestChannel(wsMap[i].id))
    /\ [][/\ WsStep("send") =>
                \A c \in Channels :
                    chan'[c] # chan[c] => c = LatestChannel(wsOp'.id)
          /\ WsStep("attach") =>
                \A c \in Channels : c # wsOp'.ch => chan'[c] = chan[c]]_vars

\* After two connections for one order id a message for it went to the second
\* socket; the first got nothing after its 'connected' and was never closed.
C34_Witness ==
    /\ wsOp.name = "send"
    /\ wsOp.attempted = {2}
    /\ chan[1].owner = wsOp.id
    /\ chan[2].owner = wsOp.id
    /\ Len(chan[1].sent) = 1
    /\ chan[1].closed = 0
    /\ ~chan[1].ended
    /\ Len(chan[2].sent) = 2

\* C35: a 'close' or 'error' event on a socket that a later connection for the
\* same order id has replaced in the Map leaves that later entry in place.
C35_SupersededCloseKeepsCurrent ==
    [][(/\ WsStep("event")
        /\ MapHas(wsMap, wsOp'.id)
        /\ MapGet(wsMap, wsOp'.id) # wsOp'.ch)
       => /\ MapHas(wsMap', wsOp'.id)
          /\ MapGet(wsMap', wsOp'.id) = MapGet(wsMap, wsOp'.id)]_vars

\* No worker is inside updateMetrics.
NoMetricsUpdate == \A w \in Workers : wPc[w] \notin {"metrics", "metricsFailed"}

\* C36: whenever no updateMetrics call is in progress, stats:total_orders is
\* stats:successful_orders + stats:failed_orders, and stats:raydium_routed +
\* stats:meteora_routed is stats:successful_orders.
C36_CountersAddUp ==
    NoMetricsUpdate =>
        /\ stats.total = stats.successful + stats.failed
        /\ stats.raydium + stats.meteora = stats.successful

\* C37: an order whose orders.status is failed has the error message in
\* execution_data; one whose status is confirmed has the outcome (venue, price,
\* gas, settlement reference) and no error; and once nothing is writing to a
\* failed order, every status ever stored in its row has an event row, failed
\* included.
C37_FinalDataAndTimeline ==
    \A o \in Orders :
        /\ dbStatus[o] = "failed" =>
              /\ dbExec[o].kind = "error" /\ dbExec[o].error # ""
              /\ Quiet(o) =>
                    \A st \in written[o] :
                        \E i \in DOMAIN events[o] : events[o][i].status = st
        /\ dbStatus[o] = "confirmed" =>
              /\ dbExec[o].kind = "outcome"
              /\ dbExec[o].dex \in DexNames
              /\ dbExec[o].error = ""

\* C38: in every confirmed order execution_data.dex is the selected_dex of the
\* order's routing decision rows, and a step that increments a routed counter
\* increments the one of the venue the worker's order was routed to.
C38_ExecutedOnRoutedVenue ==
    /\ [](\A o \in Orders :
             dbStatus[o] = "confirmed" =>
                 /\ decisions[o] # <<>>
                 /\ \A i \in DOMAIN decisions[o] : decisions[o][i] = dbExec[o].dex)
    /\ [][\A d \in DexNames :
             stats'[d] # stats[d] =>
                 /\ stats'[d] = stats[d] + 1
                 /\ \E w \in Workers :
                       /\ wPc[w] = "metrics" /\ wPc'[w] = "return"
                       /\ Last(decisions[OrderOf(w)]) = d]_vars

\* Invocations of processOrder started for the job so far.
Invocations(i) == jobs[i].attemptsMade + (IF jobs[i].state = "active" THEN 1 ELSE 0)

\* C40: one Process invocation requests the quotes at most once and calls
\* executeSwap at most once; a job is put back to waiting only by an invocation
\* that threw, a finished job is never run again, an order has one job, and a
\* job is invoked at most three times.
C40_NoInternalRetry ==
    /\ [](/\ \A w \in Workers : wHist[w].quoteCalls <= 1 /\ wHist[w].swaps <= 1
          /\ \A o \in Orders : Cardinality(JobsOf(o)) <= 1
          /\ \A i \in DOMAIN jobs : Invocations(i) <= 3)
    /\ [][\A i \in DOMAIN jobs :
             /\ jobs[i].state \in {"completed", "failed"} => jobs'[i] = jobs[i]
             /\ jobs'[i].state = "active" /\ jobs[i].state # "active" =>
                   jobs[i].state = "waiting"
             /\ jobs'[i].state = "waiting" /\ jobs[i].state # "waiting" =>
                   \E w \in Workers : wJob[w] = i /\ wPc[w] = "throw"]_vars

\* A job was invoked three times and failed for good.
C40_Witness ==
    \E i \in DOMAIN jobs :
        /\ jobs[i].state = "failed"
        /\ jobs[i].attemptsMade = 3
        /\ Len(decisions[jobs[i].jobId]) >= 1

\* What the stores and the subscriber map hold for one order id.
OrderState(o) ==
    <<dbStatus[o], dbExec[o], events[o], decisions[o], cache[o], connections[o],
      delivered[o]>>

====
